---- MODULE Spec2Model ----
(***************************************************************************)
(* Director Studio (PromptFlow): the retry wrapper of geminiService.ts,    *)
(* the production pipeline (handleDeduct / the V30 storyboard button),     *)
(* the batch watermark removal (handlePurifyBatch, both App variants) and  *)
(* the mask undo history of the V30 purifier.                              *)
(*                                                                         *)
(* The two App components of the repository are called V28 (Director Core  *)
(* V28.9, the first component of the App source) and V30 (Director's       *)
(* Studio V30.0, the second component).                                    *)
(***************************************************************************)
EXTENDS Integers, Sequences, FiniteSets, TLC

(***************************************************************************)
(* Bounds of the model.                                                    *)
(***************************************************************************)
MaxRetriesBound == 4
MaxRuns   == 2    \* production runs started in one behaviour
MaxShots  == 2    \* largest shot count chosen / largest remote array
MaxClicks == 2    \* gestures on the production pipeline in one behaviour
MaxQueue  == 3    \* items of the purify queue; images of the matrix, changes of the selection, removeWatermark calls
MaxStrokes == 2   \* strokes drawn on the mask canvas in one behaviour
MaxLoads  == 2    \* image loads in flight at one time
MaxGestures == 3  \* selections, undos and clears of the mask in one behaviour
MaxPayload == 2   \* characters of the payload of an image input
MaxImages  == 2   \* images handed to distillStyle in one call
MaxAssets  == 2   \* assets saved in one behaviour
MaxAssetImages == 2  \* images of one asset
MaxToggles == 2   \* clicks on the enable/disable button of an asset

(***************************************************************************)
(* Texts are sequences of one-character strings, so that toLowerCase and   *)
(* includes are computed character by character.                           *)
(***************************************************************************)
UpperChars == <<"A","B","C","D","E","F","G","H","I","J","K","L","M",
                "N","O","P","Q","R","S","T","U","V","W","X","Y","Z">>
LowerChars == <<"a","b","c","d","e","f","g","h","i","j","k","l","m",
                "n","o","p","q","r","s","t","u","v","w","x","y","z">>

ToLowerChar(c) ==
  IF \E k \in 1..Len(UpperChars) : UpperChars[k] = c
    THEN LowerChars[CHOOSE k \in 1..Len(UpperChars) : UpperChars[k] = c]
    ELSE c

\* A toLowerCase that leaves the text as it is.
ToLowerCase_Identity(s) == s

\* String.prototype.toLowerCase
ToLowerCase(s) == [k \in 1..Len(s) |-> ToLowerChar(s[k])]

\* String.prototype.includes
Includes(s, sub) ==
  \E k \in 0..(Len(s) - Len(sub)) : SubSeq(s, k + 1, k + Len(sub)) = sub

Marker429   == <<"4","2","9">>
MarkerQuota == <<"q","u","o","t","a">>

\* A classification that takes every failure for a quota failure.
IsQuotaError_Always(text) == TRUE

\* errorMsg.includes("429") || errorMsg.includes("quota"), on the lowered text
IsQuotaError(text) ==
  LET errorMsg == ToLowerCase(text)
  IN  Includes(errorMsg, Marker429) \/ Includes(errorMsg, MarkerQuota)

\* The loop bound taken for the retry bound.
AttemptsRemain_OffByOne(i, maxRetries) == i < maxRetries

\* i < maxRetries - 1
AttemptsRemain(i, maxRetries) == i < maxRetries - 1

\* the 5000 of setTimeout(resolve, 5000 * (i + 1))
BaseDelayMs == 5000

\* A delay that does not depend on the attempt.
RetryDelay_Constant(i) == BaseDelayMs

\* setTimeout(resolve, 5000 * (i + 1))
RetryDelay(i) == BaseDelayMs * (i + 1)

(***************************************************************************)
(* The errors the wrapped operation can fail with, by their toString().    *)
(***************************************************************************)
TextHttp429   == <<"E","r","r","o","r",":"," ","4","2","9">>
TextQuota     == <<"Q","u","o","t","a"," ","h","i","t">>
TextLimit     == <<"R","a","t","e"," ","l","i","m","i","t">>
TextExhausted == <<"R","E","S","O","U","R","C","E","_","E","X","H","A","U","S","T","E","D">>
TextCuota     == <<"c","u","o","t","a"," ","a","g","o","t","a","d","a">>
TextOther     == <<"R","e","n","d","e","r"," ","f","a","i","l","e","d">>

ErrorTexts == {TextHttp429, TextQuota, TextLimit, TextExhausted, TextCuota, TextOther}
Values     == {"v1", "v2"}

NoText  == <<>>
Resolved(v) == [ok |-> TRUE,  val |-> v,      err |-> NoText]
Rejected(t) == [ok |-> FALSE, val |-> "none", err |-> t]
\* the value of lastError before any failure
Undefined   == [ok |-> FALSE, val |-> "undefined", err |-> NoText]
Outcomes    == {Resolved(v) : v \in Values} \cup {Rejected(t) : t \in ErrorTexts}

VARIABLES
  \* ---- withRetry ----
  fn,          \* what the wrapped operation does at its 1st, 2nd, ... call
  maxRetries,  \* the parameter
  i,           \* the loop index
  rpc,         \* "loop", "await_fn", "delay", "returned", "thrown"
  calls,       \* number of invocations of fn so far
  lastError,   \* the variable lastError
  waits,       \* the delays waited so far, in ms
  settled,     \* the value returned or the error thrown
  \* ---- App: production pipeline ----
  variant,     \* which App component runs: "V28" or "V30"
  hasApiKey,   \* V28: hasApiKey
  script,      \* script
  style,       \* style (Null or a profile)
  images,      \* images (the samples of the DNA lab / of the purifier matrix)
  shots,       \* shots
  status,      \* status
  shotCount,   \* shotCount
  directorLog, \* directorLog, newest first
  now,         \* Date.now()
  runs,        \* the invocations of handleDeduct / the storyboard onClick
  distills,    \* distillStyle calls in flight
  issued,      \* remote requests issued so far, by operation
  clicks,      \* clicks on the storyboard button so far
  edits,       \* distill clicks, script edits and shot deletions so far
  aistudio,    \* V28: whether window.aistudio exists
  \* ---- App: watermark removal ----
  purifyQueue,      \* V28: purifyQueue
  isPurifyingBatch, \* V28: isPurifyingBatch
  isPurifying,      \* V30: isPurifying
  selectedInMatrix, \* V30: selectedInMatrix, in insertion order
  processingBatch,  \* V30: processingBatch
  purCalls,         \* the removeWatermark calls made so far and how they settled
  picks,            \* V30: changes of the selection so far
  console,          \* what console.error has written so far
  \* ---- App (V30): the mask canvas of the purifier ----
  purifyInput,      \* purifyInput (Null or the active image)
  purifyOutput,     \* purifyOutput
  canvas,           \* the bitmap of the mask canvas (maskCanvasRef.current)
  maskHistory,      \* maskHistory: image -> snapshots, oldest first
  isDrawing,        \* isDrawing
  strokes,          \* strokes begun so far
  loads,            \* image loads in flight (their onload has not run yet)
  lastOp,           \* the last operation on the mask and what it found
  gestures,         \* selections, undos and clears of the mask so far
  \* ---- geminiService: the image parts of a request ----
  callOp,           \* the operation called: "distillStyle", "removeWatermark"
  imageArgs,        \* imageB64s / <<imageB64>>: the image inputs, as handed in
  maskArg,          \* maskB64 (NoImage if the argument is left out)
  parts,            \* the inlineData.data of the parts built (<<>> before)
  \* ---- App (V28): the asset library and the parts of a render request ----
  assets,           \* assets
  toggles,          \* clicks on the enable/disable button of an asset so far
  renderParts,      \* renderShot: parts (<<>> before the call)
  \* ---- App: persistence ----
  store,            \* the kv object store: the keys present and their values
  isLoaded,         \* isLoaded
  initPc            \* initApp: "loading", "loaded", "failed"

retryVars == <<fn, maxRetries, i, rpc, calls, lastError, waits, settled>>
pipeVars  == <<variant, hasApiKey, script, style, images, shots, status,
               shotCount, directorLog, now, runs, distills, issued, clicks,
               edits, aistudio>>
\* the state only the pipeline handlers write
pipeOnly  == <<hasApiKey, script, style, status, shotCount, runs, distills,
               issued, clicks, edits, aistudio>>
purVars   == <<purifyQueue, isPurifyingBatch, isPurifying, selectedInMatrix,
               processingBatch, purCalls, picks, console>>
\* the state the purifier shares with its mask canvas
canvasVars == <<purifyInput, purifyOutput, canvas>>
maskVars  == <<maskHistory, isDrawing, strokes, loads, lastOp, gestures>>

partVars  == <<callOp, imageArgs, maskArg, parts>>
assetVars == <<assets, toggles, renderParts>>
storeVars == <<store, isLoaded, initPc>>

vars == <<retryVars, pipeVars, purVars, canvasVars, maskVars, partVars, assetVars,
          storeVars>>

notRetry == <<pipeVars, purVars, canvasVars, maskVars, partVars, assetVars,
             storeVars>>
notPipe  == <<retryVars, purVars, canvasVars, maskVars, partVars, assetVars,
             storeVars>>
notPur   == <<retryVars, pipeOnly, maskVars, partVars, assetVars, storeVars,
             console>>
notMask  == <<retryVars, pipeVars, purVars, partVars, assetVars,
             storeVars>>
notParts == <<retryVars, pipeVars, purVars, canvasVars, maskVars, assetVars,
             storeVars>>
notAssets == <<retryVars, pipeOnly, variant, images, shots, now, purVars, canvasVars,
               maskVars, partVars, storeVars>>
notStore == <<retryVars, purVars, canvasVars, maskVars, partVars, assetVars>>

(***************************************************************************)
(* App: the data of the production pipeline.                               *)
(***************************************************************************)
Null == "null"
StyleProfile == "style"

EmptyScript == <<>>
BlankScript == <<" ">>
SomeScript  == <<" ", "a", "b", " ">>
Scripts     == {EmptyScript, BlankScript, SomeScript}

RECURSIVE TrimStart(_)
TrimStart(s) == IF s # <<>> /\ Head(s) = " " THEN TrimStart(Tail(s)) ELSE s

RECURSIVE TrimEnd(_)
TrimEnd(s) ==
  IF s # <<>> /\ s[Len(s)] = " " THEN TrimEnd(SubSeq(s, 1, Len(s) - 1)) ELSE s

\* String.prototype.trim
Trim(s) == TrimEnd(TrimStart(s))

\* V28: const isScriptMissing = !script.trim();
IsScriptMissing(s) == Trim(s) = <<>>

\* A style check that is never taken.
IsStyleMissing_Never(st) == FALSE

\* V28: const isStyleMissing = !style;
IsStyleMissing(st) == st = Null

\* V30: if (!style || !script) return;
RefusedV30(s, st) == st = Null \/ s = <<>>

\* id: `placeholder-${Date.now()}-${i}` and `shot-${Date.now()}-${index}`
PlaceholderId(t, idx) == <<"placeholder", t, idx>>
ShotId(t, idx)        == <<"shot", t, idx>>

\* s.id.startsWith('placeholder-')
IsPlaceholder(s) == s.id[1] = "placeholder"

\* Array(shotCount).fill(0).map((_, i) => ({ id: ..., isGenerating: true }))
Placeholders(t, count) ==
  [k \in 1..count |->
     [id |-> PlaceholderId(t, k - 1), isGenerating |-> TRUE, imageUrl |-> Null]]

\* the array deductStoryboard resolves with, by the identities it assigns
ProducedIds(t, n) == [k \in 1..n |-> ShotId(t, k - 1)]

\* newShots.map(s => ({ ...s, isGenerating: true }))
FlagGenerating(ids) ==
  [k \in 1..Len(ids) |-> [id |-> ids[k], isGenerating |-> TRUE, imageUrl |-> Null]]

\* A filter that keeps every shot.
RemovePlaceholders_KeepAll(seq) == seq

\* prev.filter(s => !s.id.startsWith('placeholder-'))
RemovePlaceholders(seq) == SelectSeq(seq, LAMBDA s : ~IsPlaceholder(s))

\* prev.map(s => s.id === shot.id ? { ...s, imageUrl: url, isGenerating: false } : s)
SetImage(seq, id, url) ==
  [k \in 1..Len(seq) |->
     IF seq[k].id = id
       THEN [seq[k] EXCEPT !.imageUrl = url, !.isGenerating = FALSE]
       ELSE seq[k]]

\* prev.filter(s => s.id !== shot.id)
RemoveShot(seq, id) == SelectSeq(seq, LAMBDA s : s.id # id)

\* the entries kept by prev.slice(0, 19) (V28) and prev.slice(0, 15) (V30)
LogKeepV28 == 19
LogKeepV30 == 15

\* log: setDirectorLog(prev => [entry, ...prev.slice(0, keep)])
LogTo(log, entry, keep) ==
  <<entry>> \o SubSeq(log, 1, IF Len(log) < keep THEN Len(log) ELSE keep)

\* a run that has not been started
NoRun == [pc |-> "none", count |-> 0, ph |-> <<>>, newShots |-> <<>>,
          k |-> 0, tried |-> <<>>]

\* the shot list a session that produced shots has stored
\* (a V28 session that was closed during a run also stored its placeholders)
PersistedShots(v) ==
  IF v = "V28"
    THEN <<[id |-> PlaceholderId(0, 0), isGenerating |-> TRUE, imageUrl |-> Null],
           [id |-> ShotId(0, 0), isGenerating |-> FALSE, imageUrl |-> "old"]>>
    ELSE <<[id |-> ShotId(0, 0), isGenerating |-> FALSE, imageUrl |-> "old"]>>

\* a reference image of the DNA lab
RefImage == <<"img", 0>>

\* what the startup load restores: nothing (first visit), a script or a style
\* alone, both, or both together with the shots of earlier runs
Sessions(v) ==
  {[script |-> EmptyScript, style |-> Null,         images |-> <<>>, shots |-> <<>>],
   [script |-> SomeScript,  style |-> Null,         images |-> <<RefImage>>, shots |-> <<>>],
   [script |-> EmptyScript, style |-> StyleProfile, images |-> <<RefImage>>, shots |-> <<>>],
   [script |-> SomeScript,  style |-> StyleProfile, images |-> <<RefImage>>, shots |-> <<>>],
   [script |-> SomeScript,  style |-> StyleProfile, images |-> <<RefImage>>,
    shots |-> PersistedShots(v)]}

NoRequests == [op \in {"distill", "deduct", "render"} |-> 0]

\* the state only the pipeline handlers write, before any of them has run
PipeOnlyAtRest ==
  /\ aistudio = FALSE
  /\ hasApiKey = FALSE
  /\ script = EmptyScript
  /\ style = Null
  /\ status = "IDLE"
  /\ shotCount = 1
  /\ runs = [r \in 1..MaxRuns |-> NoRun]
  /\ distills = 0
  /\ issued = NoRequests
  /\ clicks = 0
  /\ edits = 0

PipeAtRest ==
  /\ variant = "V28"
  /\ images = <<>>
  /\ shots = <<>>
  /\ directorLog = <<>>
  /\ now = 0
  /\ PipeOnlyAtRest

(***************************************************************************)
(* App: the data of the watermark removal.                                 *)
(***************************************************************************)
\* shot card: id: `pur-${Date.now()}`
PurifyShotId(t) == <<"pur", t>>

\* file input: id: `pur-${Date.now()}-${Math.random()}`
PurifyFileId(t, rnd) == <<"pur", t, rnd>>

\* { id, input, status: 'pending' }
PendingItem(id, input) ==
  [id |-> id, input |-> input, output |-> Null, status |-> "pending"]

\* the files the file input of the V28 purifier can read
UploadFile == <<"file", 1>>

\* the images of the V30 matrix at startup
Matrix == [k \in 1..MaxQueue |-> <<"img", k>>]

\* A filter that lets every item of the queue through.
PendingItems_All(queue) == queue

\* purifyQueue.filter(i => i.status === 'pending')
PendingItems(queue) == SelectSeq(queue, LAMBDA p : p.status = "pending")

\* prev.map(p => p.id === item.id ? { ...p, status: 'working' } : p)
SetWorking(queue, id) ==
  [k \in 1..Len(queue) |->
     IF queue[k].id = id THEN [queue[k] EXCEPT !.status = "working"]
                         ELSE queue[k]]

\* pending.map(item => processItem(item)), up to the await of each processItem
RECURSIVE SetAllWorking(_, _)
SetAllWorking(queue, items) ==
  IF items = <<>> THEN queue
  ELSE SetAllWorking(SetWorking(queue, Head(items).id), Tail(items))

\* prev.map(p => p.id === item.id ? { ...p, output: result, status: 'done' } : p)
SetDone(queue, id, result) ==
  [k \in 1..Len(queue) |->
     IF queue[k].id = id
       THEN [queue[k] EXCEPT !.output = result, !.status = "done"]
       ELSE queue[k]]

\* An update that marks every item of the queue, whatever its id.
SetError_Unkeyed(queue, id) ==
  [k \in 1..Len(queue) |-> [queue[k] EXCEPT !.status = "error"]]

\* prev.map(p => p.id === item.id ? { ...p, status: 'error' } : p)
SetError(queue, id) ==
  [k \in 1..Len(queue) |->
     IF queue[k].id = id THEN [queue[k] EXCEPT !.status = "error"]
                         ELSE queue[k]]

\* what removeWatermark resolves with for the c-th call: the image of the
\* response, `data:image/png;base64,${part.inlineData.data}`
Purified(c) == <<"purified", c>>

\* a removeWatermark call: batch 0 is handlePurifySingle
PurCall(b, key, input, mask) ==
  [batch |-> b, key |-> key, input |-> input, mask |-> mask, outcome |-> "pending"]

\* the calls of batch b, by their index
CallsOfBatch(cs, b) == {c \in 1..Len(cs) : cs[c].batch = b}

\* the number of the last batch started
LastBatch(cs) ==
  IF \A c \in 1..Len(cs) : cs[c].batch = 0 THEN 0
  ELSE CHOOSE b \in 1..Len(cs) :
         /\ CallsOfBatch(cs, b) # {}
         /\ \A c \in 1..Len(cs) : cs[c].batch <= b

\* Promise.all has every promise of batch b settled
BatchSettled(cs, b) == \A c \in CallsOfBatch(cs, b) : cs[c].outcome # "pending"

\* finished.filter(r => !!r): the results of the calls of batch b that
\* resolved, in the order of the targets
RECURSIVE SuccessResults(_, _, _)
SuccessResults(cs, b, c) ==
  IF c > Len(cs) THEN <<>>
  ELSE (IF cs[c].batch = b /\ cs[c].outcome = "ok" THEN <<Purified(c)>> ELSE <<>>)
         \o SuccessResults(cs, b, c + 1)

\* Set.prototype.has, on a set kept in insertion order
Has(seq, x) == \E k \in 1..Len(seq) : seq[k] = x

\* toggleSelection: next.has(img) ? next.delete(img) : next.add(img)
Toggle(sel, img) ==
  IF Has(sel, img) THEN SelectSeq(sel, LAMBDA x : x # img) ELSE Append(sel, img)

\* new Set(images): the images in their order, each once
RECURSIVE NewSet(_)
NewSet(seq) ==
  IF seq = <<>> THEN <<>>
  ELSE LET rest == NewSet(SubSeq(seq, 1, Len(seq) - 1))
       IN  IF Has(rest, seq[Len(seq)]) THEN rest ELSE Append(rest, seq[Len(seq)])

Range(seq) == {seq[k] : k \in 1..Len(seq)}

PurAtRest ==
  /\ purifyQueue = <<>>
  /\ isPurifyingBatch = FALSE
  /\ isPurifying = FALSE
  /\ selectedInMatrix = <<>>
  /\ processingBatch = {}
  /\ purCalls = <<>>
  /\ picks = 0
  /\ console = <<>>

(***************************************************************************)
(* App (V30): the data of the mask canvas.  A bitmap is modelled by its    *)
(* background (cleared to transparent, or filled black) and the set of the *)
(* strokes it shows: every stroke is white and opaque, so that the order   *)
(* in which strokes were painted does not show in the pixels.              *)
(***************************************************************************)
\* the bitmap of a canvas after canvas.width = ... (and of a new canvas)
Transparent == [bg |-> "clear", ink |-> {}]

\* ctx.fillStyle = 'black'; ctx.fillRect(0, 0, width, height)
Black == [bg |-> "black", ink |-> {}]

\* ctx.lineTo(pos.x, pos.y); ctx.stroke() for stroke n
Stroke(c, n) == [c EXCEPT !.ink = @ \cup {n}]

\* canvas.toDataURL(): a PNG, which keeps every pixel
ToDataURL(c) == <<"data:image/png", c>>

\* the bitmap an Image shows once a data URL has loaded
Decode(url) == url[2]

\* ctx.drawImage(img, 0, 0): source-over; a bitmap with a black background
\* covers the canvas, one with a transparent background adds its strokes
DrawImage(c, img) ==
  IF img.bg = "black" THEN img
  ELSE [bg |-> c.bg, ink |-> c.ink \cup img.ink]

\* pixels[i] > 20 for some pixel: the red channel of a stroke is 255, that of
\* a black or a transparent pixel is 0
HasContent(c) == c.ink # {}

\* canvas.toDataURL('image/jpeg', 0.8): no alpha channel
ToJpeg(c) == <<"data:image/jpeg", c.ink>>

\* maskHistory[purifyInput] || []
HistoryOf(h, img) == IF img \in DOMAIN h THEN h[img] ELSE <<>>

\* { ...prev, [purifyInput]: snapshots }
WithHistory(h, img, snapshots) ==
  [x \in DOMAIN h \cup {img} |-> IF x = img THEN snapshots ELSE h[x]]

\* A slice that also drops the snapshot before the last one.
DropLast_Two(history) == SubSeq(history, 1, Len(history) - 2)

\* history.slice(0, -1)
DropLast(history) == SubSeq(history, 1, Len(history) - 1)

\* the image loads a handler starts: the load of handleUndo, the load of
\* syncCanvasSize (of purifyInput), and the load of the last snapshot that
\* the onload of syncCanvasSize starts
UndoLoad(snapshot)   == [kind |-> "undo", draw |-> snapshot]
SyncLoad(img, hist)  == [kind |-> "sync", input |-> img, history |-> hist]
MaskLoad(snapshot)   == [kind |-> "mask", draw |-> snapshot]

\* the mask has not been worked on
NoOp == [op |-> "none", quiet |-> FALSE, before |-> <<>>]

CanvasAtRest ==
  /\ purifyInput = Null
  /\ purifyOutput = Null
  /\ canvas = Transparent

MaskAtRest ==
  /\ maskHistory = << >>
  /\ isDrawing = FALSE
  /\ strokes = 0
  /\ loads = <<>>
  /\ lastOp = NoOp
  /\ gestures = 0

(***************************************************************************)
(* geminiService: the image inputs of a request.  An image input is handed *)
(* in as text: the encoded payload alone, or a data URL that ends with it. *)
(***************************************************************************)
\* the characters an encoded payload is made of (a letter, and the two signs
\* of the base64 alphabet)
PayloadChars == {"A", "/", "="}

RECURSIVE TextsUpTo(_)
TextsUpTo(n) ==
  IF n = 0 THEN {<<>>}
  ELSE LET shorter == TextsUpTo(n - 1)
       IN  shorter \cup {Append(t, c) : t \in {x \in shorter : Len(x) = n - 1},
                                        c \in PayloadChars}

Payloads == TextsUpTo(MaxPayload)

\* what FileReader.readAsDataURL and canvas.toDataURL put before the payload
DataUrlPrefix ==
  <<"d","a","t","a",":","i","m","a","g","e","/","j","p","e","g",";",
    "b","a","s","e","6","4",",">>

\* an image input: its payload and the form in which it is handed in
ImageInput(form, payload) == [form |-> form, payload |-> payload]
ImageInputs == {ImageInput(f, p) : f \in {"raw", "url"}, p \in Payloads}
\* maskB64 when the argument is left out: undefined
NoImage == ImageInput("undefined", <<>>)

\* the text of an image input
TextOf(img) ==
  IF img.form = "url" THEN DataUrlPrefix \o img.payload ELSE img.payload

\* String.prototype.split(','): the pieces between the commas
RECURSIVE SplitAtComma(_)
SplitAtComma(s) ==
  IF \E k \in 1..Len(s) : s[k] = ","
    THEN LET k == CHOOSE j \in 1..Len(s) :
                    s[j] = "," /\ \A h \in 1..(j - 1) : s[h] # ","
         IN  <<SubSeq(s, 1, k - 1)>> \o SplitAtComma(SubSeq(s, k + 1, Len(s)))
    ELSE <<s>>

\* A normalisation that transmits the text as it is handed in.
StripPrefix_Never(data) == data

\* data.split(',')[1] || data: the second piece unless there is none or it
\* is empty
StripPrefix(data) ==
  LET pieces == SplitAtComma(data)
  IN  IF Len(pieces) >= 2 /\ pieces[2] # <<>> THEN pieces[2] ELSE data

\* the keys of the store that hold the session
StoreKeys == {"script", "style", "images", "shots"}

\* useState(''), useState(null), useState([]), useState([])
DefaultState ==
  [script |-> EmptyScript, style |-> Null, images |-> <<>>, shots |-> <<>>]

\* an object store without a record
EmptyStore == [has |-> {}, val |-> DefaultState]

\* the startup load is over and the store is not followed
StoreAtRest ==
  /\ store = EmptyStore
  /\ isLoaded = TRUE
  /\ initPc = "loaded"

\* useState<Asset[]>([]); no render request has been built
AssetsAtRest ==
  /\ assets = <<>>
  /\ toggles = 0
  /\ renderParts = <<>>

PartsAtRest ==
  /\ callOp = "none"
  /\ imageArgs = <<>>
  /\ maskArg = NoImage
  /\ parts = <<>>

(***************************************************************************)
(* withRetry                                                               *)
(***************************************************************************)
RetryAtRest ==
  /\ maxRetries = 3
  /\ fn = [k \in 1..MaxRetriesBound |-> Resolved("v1")]
  /\ i = 0
  /\ rpc = "loop"
  /\ calls = 0
  /\ lastError = Undefined
  /\ waits = <<>>
  /\ settled = Undefined

InitRetry ==
  /\ maxRetries \in 0..MaxRetriesBound
  /\ fn \in [1..MaxRetriesBound -> Outcomes]
  /\ i = 0
  /\ rpc = "loop"
  /\ calls = 0
  /\ lastError = Undefined
  /\ waits = <<>>
  /\ settled = Undefined
  /\ PipeAtRest
  /\ PurAtRest
  /\ AssetsAtRest
  /\ StoreAtRest
  /\ CanvasAtRest
  /\ MaskAtRest
  /\ PartsAtRest

\* for (...; i < maxRetries; ...) { try { return await fn();
RetryInvoke ==
  /\ rpc = "loop"
  /\ i < maxRetries
  /\ rpc' = "await_fn"
  /\ calls' = calls + 1
  /\ UNCHANGED <<fn, maxRetries, i, lastError, waits, settled>>
  /\ UNCHANGED notRetry

\* A return of what the first attempt settled with.
ReturnedValue_OfFirst(attempts, n) == attempts[1]

\* return await fn(): what the attempt just awaited resolved with
ReturnedValue(attempts, n) == attempts[n]

\* fn() resolves: return its value
RetryFnResolves ==
  /\ rpc = "await_fn"
  /\ fn[calls].ok
  /\ rpc' = "returned"
  /\ settled' = ReturnedValue(fn, calls)
  /\ UNCHANGED <<fn, maxRetries, i, calls, lastError, waits>>
  /\ UNCHANGED notRetry

\* fn() rejects: the catch block
RetryFnRejects ==
  /\ rpc = "await_fn"
  /\ ~fn[calls].ok
  /\ lastError' = fn[calls]
  /\ IF IsQuotaError(fn[calls].err) /\ AttemptsRemain(i, maxRetries)
       THEN /\ rpc' = "delay"
            /\ waits' = Append(waits, RetryDelay(i))
            /\ UNCHANGED settled
       ELSE /\ rpc' = "thrown"
            /\ settled' = fn[calls]
            /\ UNCHANGED waits
  /\ UNCHANGED <<fn, maxRetries, i, calls>>
  /\ UNCHANGED notRetry

\* the timer fires: continue; i++
RetryDelayElapsed ==
  /\ rpc = "delay"
  /\ rpc' = "loop"
  /\ i' = i + 1
  /\ UNCHANGED <<fn, maxRetries, calls, lastError, waits, settled>>
  /\ UNCHANGED notRetry

\* the loop ends without a return or a throw: throw lastError
RetryLoopExit ==
  /\ rpc = "loop"
  /\ ~(i < maxRetries)
  /\ rpc' = "thrown"
  /\ settled' = lastError
  /\ UNCHANGED <<fn, maxRetries, i, calls, lastError, waits>>
  /\ UNCHANGED notRetry

NextRetry ==
  \/ RetryInvoke
  \/ RetryFnResolves
  \/ RetryFnRejects
  \/ RetryDelayElapsed
  \/ RetryLoopExit

SpecRetry == InitRetry /\ [][NextRetry]_vars

(***************************************************************************)
(* App: the production pipeline.                                           *)
(***************************************************************************)
InitPipe ==
  /\ variant \in {"V28", "V30"}
  /\ aistudio \in (IF variant = "V28" THEN BOOLEAN ELSE {FALSE})
  /\ hasApiKey = FALSE
  /\ \E se \in Sessions(variant) :
       /\ script = se.script
       /\ style = se.style
       /\ images = se.images
       /\ shots = se.shots
  /\ status = "IDLE"
  /\ shotCount \in 1..MaxShots
  /\ directorLog = (IF variant = "V28" THEN <<"boot">> ELSE <<>>)
  /\ now = 0
  /\ runs = [r \in 1..MaxRuns |-> NoRun]
  /\ distills = 0
  /\ issued = NoRequests
  /\ clicks = 0
  /\ edits = 0
  /\ RetryAtRest
  /\ PurAtRest
  /\ AssetsAtRest
  /\ StoreAtRest
  /\ CanvasAtRest
  /\ MaskAtRest
  /\ PartsAtRest

\* Date.now(): the millisecond of the previous reading or a later one; the
\* first reading of a session is later than every persisted identity
DateNow     == IF now = 0 THEN {1} ELSE {now, now + 1}
\* Date.now() in a click handler: a click is handled in a later millisecond
\* than the click before it
ClickTime   == {now + 1}
Started     == {r \in 1..MaxRuns : runs[r].pc # "none"}
NextRun     == Cardinality(Started) + 1
Issue(op)   == [issued EXCEPT ![op] = @ + 1]
LogV28(log, entry) == LogTo(log, entry, LogKeepV28)
LogV30(log, entry) == LogTo(log, entry, LogKeepV30)

\* V28 handleDeduct: no API key and no key selector: return
HandleDeductNoKey ==
  /\ variant = "V28"
  /\ status # "DEDUCTING"
  /\ clicks + edits < MaxClicks
  /\ ~hasApiKey /\ ~aistudio
  /\ clicks' = clicks + 1
  /\ UNCHANGED <<variant, hasApiKey, script, style, images, shots, status,
                 shotCount, directorLog, now, runs, distills, issued, edits, aistudio>>
  /\ UNCHANGED notPipe

\* V28 handleDeduct: a precondition is missing: log which one, return
\* (await checkApiKey() is taken in the same step as the click: the key
\* selector is modal, no other handler runs while it is open)
HandleDeductBlocked ==
  /\ variant = "V28"
  /\ status # "DEDUCTING"
  /\ clicks + edits < MaxClicks
  /\ hasApiKey \/ aistudio
  /\ IsScriptMissing(script) \/ IsStyleMissing(style)
  /\ clicks' = clicks + 1
  /\ hasApiKey' = TRUE
  /\ LET l1 == IF IsScriptMissing(script)
                 THEN LogV28(directorLog, "blocked_script") ELSE directorLog
     IN  directorLog' = IF IsStyleMissing(style)
                          THEN LogV28(l1, "blocked_style") ELSE l1
  /\ UNCHANGED <<variant, script, style, images, shots, status, shotCount,
                 now, runs, distills, issued, edits, aistudio>>
  /\ UNCHANGED notPipe

\* V28 handleDeduct: status, placeholders, then deductStoryboard is called
HandleDeductStart(t) ==
  /\ variant = "V28"
  /\ status # "DEDUCTING"
  /\ clicks + edits < MaxClicks
  /\ NextRun <= MaxRuns
  /\ hasApiKey \/ aistudio
  /\ ~(IsScriptMissing(script) \/ IsStyleMissing(style))
  /\ clicks' = clicks + 1
  /\ hasApiKey' = TRUE
  /\ status' = "DEDUCTING"
  /\ shots' = Placeholders(t, shotCount) \o shots
  /\ directorLog' = LogV28(directorLog, "deduct_start")
  /\ issued' = Issue("deduct")
  /\ runs' = [runs EXCEPT ![NextRun] =
                [NoRun EXCEPT !.pc = "deduct", !.count = shotCount,
                              !.ph = [k \in 1..shotCount |-> PlaceholderId(t, k - 1)]]]
  /\ now' = t
  /\ UNCHANGED <<variant, script, style, images, shotCount, distills, edits, aistudio>>
  /\ UNCHANGED notPipe

\* the end of the try block of handleDeduct, and its finally
FinishV28(r, log, newRuns) ==
  /\ directorLog' = LogV28(log, "delivered")
  /\ status' = "IDLE"
  /\ runs' = [newRuns EXCEPT ![r].pc = "done"]
  /\ UNCHANGED issued

\* the for loop of handleDeduct reaches shot k: renderShot is called
RenderNextV28(r, log, newRuns, k) ==
  /\ directorLog' = log
  /\ runs' = [newRuns EXCEPT ![r].pc = "render", ![r].k = k,
                             ![r].tried = Append(@, k)]
  /\ issued' = Issue("render")
  /\ UNCHANGED status

\* V28: deductStoryboard resolves with n shots
DeductResolves(r, n, t) ==
  /\ variant = "V28"
  /\ runs[r].pc = "deduct"
  /\ LET ids     == ProducedIds(t, n)
         newRuns == [runs EXCEPT ![r].newShots = ids]
     IN  /\ shots' = FlagGenerating(ids) \o RemovePlaceholders(shots)
         /\ IF n = 0
              THEN FinishV28(r, directorLog, newRuns)
              ELSE RenderNextV28(r, directorLog, newRuns, 0)
  /\ now' = t
  /\ UNCHANGED <<variant, hasApiKey, script, style, images, shotCount,
                 distills, clicks, edits, aistudio>>
  /\ UNCHANGED notPipe

\* V28: deductStoryboard rejects: the outer catch and the finally
DeductRejects(r) ==
  /\ variant = "V28"
  /\ runs[r].pc = "deduct"
  /\ directorLog' = LogV28(directorLog, "deduct_error")
  /\ shots' = RemovePlaceholders(shots)
  /\ status' = "IDLE"
  /\ runs' = [runs EXCEPT ![r].pc = "failed"]
  /\ UNCHANGED <<variant, hasApiKey, script, style, images, shotCount, now,
                 distills, issued, clicks, edits, aistudio>>
  /\ UNCHANGED notPipe

\* V28: renderShot resolves for shot k
RenderResolves(r) ==
  /\ variant = "V28"
  /\ runs[r].pc = "render"
  /\ LET k == runs[r].k
         n == Len(runs[r].newShots)
     IN  /\ shots' = SetImage(shots, runs[r].newShots[k + 1], <<"url", r, k>>)
         /\ IF k < n - 1
              THEN /\ runs' = [runs EXCEPT ![r].pc = "pause"]
                   /\ UNCHANGED <<directorLog, status, issued>>
              ELSE FinishV28(r, directorLog, runs)
  /\ UNCHANGED <<variant, hasApiKey, script, style, images, shotCount, now,
                 distills, clicks, edits, aistudio>>
  /\ UNCHANGED notPipe

\* V28: the 1500 ms timer fires: i++, the next renderShot is called
PauseElapsed(r) ==
  /\ variant = "V28"
  /\ runs[r].pc = "pause"
  /\ RenderNextV28(r, directorLog, runs, runs[r].k + 1)
  /\ UNCHANGED <<variant, hasApiKey, script, style, images, shots, shotCount,
                 now, distills, clicks, edits, aistudio>>
  /\ UNCHANGED notPipe

\* V28: renderShot rejects for shot k: the inner catch, then i++
RenderRejects(r) ==
  /\ variant = "V28"
  /\ runs[r].pc = "render"
  /\ LET k   == runs[r].k
         n   == Len(runs[r].newShots)
         log == LogV28(directorLog, "render_busy")
     IN  IF k < n - 1
           THEN RenderNextV28(r, log, runs, k + 1)
           ELSE FinishV28(r, log, runs)
  /\ UNCHANGED <<variant, hasApiKey, script, style, images, shots, shotCount,
                 now, distills, clicks, edits, aistudio>>
  /\ UNCHANGED notPipe

\* V30 storyboard onClick: if (!style || !script) return;
StoryboardRefused ==
  /\ variant = "V30"
  /\ clicks + edits < MaxClicks
  /\ RefusedV30(script, style)
  /\ clicks' = clicks + 1
  /\ UNCHANGED <<variant, hasApiKey, script, style, images, shots, status,
                 shotCount, directorLog, now, runs, distills, issued, edits, aistudio>>
  /\ UNCHANGED notPipe

\* V30 storyboard onClick: status, then deductStoryboard is called
StoryboardStart ==
  /\ variant = "V30"
  /\ clicks + edits < MaxClicks
  /\ NextRun <= MaxRuns
  /\ ~RefusedV30(script, style)
  /\ clicks' = clicks + 1
  /\ status' = "DEDUCTING"
  /\ issued' = Issue("deduct")
  /\ runs' = [runs EXCEPT ![NextRun] =
                [NoRun EXCEPT !.pc = "deduct", !.count = shotCount]]
  /\ UNCHANGED <<variant, hasApiKey, script, style, images, shots, shotCount,
                 directorLog, now, distills, edits, aistudio>>
  /\ UNCHANGED notPipe

\* A loop that calls renderShot for the first shot again.
RenderNextV30_FirstAgain(r, newRuns, k) ==
  /\ runs' = [newRuns EXCEPT ![r].pc = "render", ![r].k = 0,
                             ![r].tried = Append(@, 0)]
  /\ issued' = Issue("render")
  /\ UNCHANGED status

\* V30: the for-of loop reaches shot k: renderShot is called
RenderNextV30(r, newRuns, k) ==
  /\ runs' = [newRuns EXCEPT ![r].pc = "render", ![r].k = k,
                             ![r].tried = Append(@, k)]
  /\ issued' = Issue("render")
  /\ UNCHANGED status

\* V30: the try block ends, finally
FinishV30(r, newRuns) ==
  /\ status' = "IDLE"
  /\ runs' = [newRuns EXCEPT ![r].pc = "done"]
  /\ UNCHANGED issued

\* V30: deductStoryboard resolves with n shots
StoryboardDeductResolves(r, n, t) ==
  /\ variant = "V30"
  /\ runs[r].pc = "deduct"
  /\ LET ids     == ProducedIds(t, n)
         newRuns == [runs EXCEPT ![r].newShots = ids]
     IN  /\ shots' = FlagGenerating(ids) \o shots
         /\ IF n = 0 THEN FinishV30(r, newRuns) ELSE RenderNextV30(r, newRuns, 0)
  /\ now' = t
  /\ UNCHANGED <<variant, hasApiKey, script, style, images, shotCount,
                 directorLog, distills, clicks, edits, aistudio>>
  /\ UNCHANGED notPipe

\* V30: deductStoryboard rejects: finally, the rejection is not caught
StoryboardDeductRejects(r) ==
  /\ variant = "V30"
  /\ runs[r].pc = "deduct"
  /\ status' = "IDLE"
  /\ runs' = [runs EXCEPT ![r].pc = "failed"]
  /\ UNCHANGED <<variant, hasApiKey, script, style, images, shots, shotCount,
                 directorLog, now, distills, issued, clicks, edits, aistudio>>
  /\ UNCHANGED notPipe

\* V30: renderShot resolves for shot k; the next one is called at once
StoryboardRenderResolves(r) ==
  /\ variant = "V30"
  /\ runs[r].pc = "render"
  /\ LET k == runs[r].k
         n == Len(runs[r].newShots)
     IN  /\ shots' = SetImage(shots, runs[r].newShots[k + 1], <<"url", r, k>>)
         /\ IF k < n - 1 THEN RenderNextV30(r, runs, k + 1) ELSE FinishV30(r, runs)
  /\ UNCHANGED <<variant, hasApiKey, script, style, images, shotCount,
                 directorLog, now, distills, clicks, edits, aistudio>>
  /\ UNCHANGED notPipe

\* V30: renderShot rejects: the loop is left, finally, nothing is caught
StoryboardRenderRejects(r) ==
  /\ variant = "V30"
  /\ runs[r].pc = "render"
  /\ status' = "IDLE"
  /\ runs' = [runs EXCEPT ![r].pc = "aborted"]
  /\ UNCHANGED <<variant, hasApiKey, script, style, images, shots, shotCount,
                 directorLog, now, distills, issued, clicks, edits, aistudio>>
  /\ UNCHANGED notPipe

\* V28 handleDistill
HandleDistill ==
  /\ variant = "V28"
  /\ status # "DISTILLING"
  /\ clicks + edits < MaxClicks
  /\ edits' = edits + 1
  /\ IF images = <<>>
       THEN /\ directorLog' = LogV28(directorLog, "distill_blocked")
            /\ UNCHANGED <<status, distills, issued>>
       ELSE /\ status' = "DISTILLING"
            /\ distills' = distills + 1
            /\ issued' = Issue("distill")
            /\ UNCHANGED directorLog
  /\ UNCHANGED <<variant, hasApiKey, script, style, images, shots, shotCount,
                 now, runs, clicks, aistudio>>
  /\ UNCHANGED notPipe

\* V30 distill onClick
DistillClick ==
  /\ variant = "V30"
  /\ clicks + edits < MaxClicks
  /\ edits' = edits + 1
  /\ status' = "DISTILLING"
  /\ distills' = distills + 1
  /\ issued' = Issue("distill")
  /\ UNCHANGED <<variant, hasApiKey, script, style, images, shots, shotCount,
                 directorLog, now, runs, clicks, aistudio>>
  /\ UNCHANGED notPipe

\* distillStyle resolves: setStyle, log, finally
DistillResolves ==
  /\ distills > 0
  /\ distills' = distills - 1
  /\ style' = StyleProfile
  /\ directorLog' = IF variant = "V28" THEN LogV28(directorLog, "distill_ok")
                                       ELSE LogV30(directorLog, "distill_ok")
  /\ status' = "IDLE"
  /\ UNCHANGED <<variant, hasApiKey, script, images, shots, shotCount, now,
                 runs, issued, clicks, edits, aistudio>>
  /\ UNCHANGED notPipe

\* distillStyle rejects: V28 logs it, V30 does not catch it; finally
DistillRejects ==
  /\ distills > 0
  /\ distills' = distills - 1
  /\ directorLog' = IF variant = "V28" THEN LogV28(directorLog, "distill_error")
                                       ELSE directorLog
  /\ status' = "IDLE"
  /\ UNCHANGED <<variant, hasApiKey, script, style, images, shots, shotCount,
                 now, runs, issued, clicks, edits, aistudio>>
  /\ UNCHANGED notPipe

\* the script textarea: onChange
SetScript(s) ==
  /\ s # script
  /\ clicks + edits < MaxClicks
  /\ edits' = edits + 1
  /\ script' = s
  /\ UNCHANGED <<variant, hasApiKey, style, images, shots, status, shotCount,
                 directorLog, now, runs, distills, issued, clicks, aistudio>>
  /\ UNCHANGED notPipe

\* V28 Output Terminal: the Clear button
ClearShots ==
  /\ variant = "V28"
  /\ shots # <<>>
  /\ clicks + edits < MaxClicks
  /\ edits' = edits + 1
  /\ shots' = <<>>
  /\ UNCHANGED <<variant, hasApiKey, script, style, images, status, shotCount,
                 directorLog, now, runs, distills, issued, clicks, aistudio>>
  /\ UNCHANGED notPipe

\* V28 shot card: the delete button
DeleteShot(k) ==
  /\ variant = "V28"
  /\ k \in 1..Len(shots)
  /\ clicks + edits < MaxClicks
  /\ edits' = edits + 1
  /\ shots' = RemoveShot(shots, shots[k].id)
  /\ UNCHANGED <<variant, hasApiKey, script, style, images, status, shotCount,
                 directorLog, now, runs, distills, issued, clicks, aistudio>>
  /\ UNCHANGED notPipe

NextPipe ==
  \/ HandleDeductNoKey
  \/ HandleDeductBlocked
  \/ \E t \in ClickTime : HandleDeductStart(t)
  \/ \E r \in 1..MaxRuns, n \in 0..MaxShots, t \in DateNow : DeductResolves(r, n, t)
  \/ \E r \in 1..MaxRuns : DeductRejects(r)
  \/ \E r \in 1..MaxRuns : RenderResolves(r)
  \/ \E r \in 1..MaxRuns : PauseElapsed(r)
  \/ \E r \in 1..MaxRuns : RenderRejects(r)
  \/ StoryboardRefused
  \/ StoryboardStart
  \/ \E r \in 1..MaxRuns, n \in 0..MaxShots, t \in DateNow : StoryboardDeductResolves(r, n, t)
  \/ \E r \in 1..MaxRuns : StoryboardDeductRejects(r)
  \/ \E r \in 1..MaxRuns : StoryboardRenderResolves(r)
  \/ \E r \in 1..MaxRuns : StoryboardRenderRejects(r)
  \/ HandleDistill
  \/ DistillClick
  \/ DistillResolves
  \/ DistillRejects
  \/ \E s \in Scripts : SetScript(s)
  \/ ClearShots
  \/ \E k \in 1..(MaxRuns * MaxShots + 1) : DeleteShot(k)

SpecPipe == InitPipe /\ [][NextPipe]_vars

(***************************************************************************)
(* App: the watermark removal (the purify queue of V28, the matrix of V30).*)
(***************************************************************************)
\* the mask canvas as the purifier can find it: no image chosen (no canvas),
\* an image without a mask, an image with one stroke painted and stored
InitCanvas ==
  \/ /\ CanvasAtRest
     /\ MaskAtRest
  \/ /\ variant = "V30"
     /\ purifyInput = Matrix[1]
     /\ purifyOutput = Null
     /\ canvas = Black
     /\ MaskAtRest
  \/ /\ variant = "V30"
     /\ purifyInput = Matrix[1]
     /\ purifyOutput = Null
     /\ canvas = Stroke(Black, 1)
     /\ maskHistory = WithHistory(<< >>, Matrix[1], <<ToDataURL(Stroke(Black, 1))>>)
     /\ isDrawing = FALSE
     /\ strokes = 1
     /\ loads = <<>>
     /\ lastOp = NoOp
     /\ gestures = 0

InitPurify ==
  /\ variant \in {"V28", "V30"}
  /\ images = (IF variant = "V30" THEN Matrix ELSE <<>>)
  /\ shots = (IF variant = "V28" THEN PersistedShots("V28") ELSE <<>>)
  /\ directorLog = (IF variant = "V28" THEN <<"boot">> ELSE <<>>)
  /\ now = 0
  /\ PipeOnlyAtRest
  /\ PurAtRest
  /\ AssetsAtRest
  /\ StoreAtRest
  /\ InitCanvas
  /\ RetryAtRest
  /\ PartsAtRest

\* Math.random(): a number that no item of the queue has drawn
FreshRandom(queue) == Len(queue) + 1

\* V28 shot card, the purify button: if (shot.imageUrl) setPurifyQueue(...)
QueueShot(k, t) ==
  /\ variant = "V28"
  /\ k \in 1..Len(shots)
  /\ shots[k].imageUrl # Null
  /\ Len(purifyQueue) < MaxQueue
  /\ now' = t
  /\ purifyQueue' = Append(purifyQueue, PendingItem(PurifyShotId(t), shots[k].imageUrl))
  /\ UNCHANGED <<variant, images, shots, directorLog>>
  /\ UNCHANGED <<isPurifyingBatch, isPurifying, selectedInMatrix, processingBatch, purCalls, picks>>
  /\ UNCHANGED canvasVars
  /\ UNCHANGED notPur

\* V28 purifier file input: reader.onload
QueueFile(t) ==
  /\ variant = "V28"
  /\ Len(purifyQueue) < MaxQueue
  /\ now' = t
  /\ purifyQueue' = Append(purifyQueue,
                           PendingItem(PurifyFileId(t, FreshRandom(purifyQueue)), UploadFile))
  /\ UNCHANGED <<variant, images, shots, directorLog>>
  /\ UNCHANGED <<isPurifyingBatch, isPurifying, selectedInMatrix, processingBatch, purCalls, picks>>
  /\ UNCHANGED canvasVars
  /\ UNCHANGED notPur

\* V28 handlePurifyBatch, up to await Promise.all: every pending item is set
\* to working and removeWatermark is called for it
HandlePurifyBatch ==
  /\ variant = "V28"
  /\ ~isPurifyingBatch
  /\ LET pending == PendingItems(purifyQueue)
         b       == LastBatch(purCalls) + 1
     IN  /\ pending # <<>>
         /\ isPurifyingBatch' = TRUE
         /\ directorLog' = LogV28(directorLog, "purify_start")
         /\ purifyQueue' = SetAllWorking(purifyQueue, pending)
         /\ purCalls' = purCalls \o
              [k \in 1..Len(pending) |->
                 PurCall(b, pending[k].id, pending[k].input, Null)]
  /\ UNCHANGED <<variant, images, shots, now>>
  /\ UNCHANGED <<isPurifying, selectedInMatrix, processingBatch, picks>>
  /\ UNCHANGED canvasVars
  /\ UNCHANGED notPur

\* A batch that logs its end and leaves the flag as it is.
BatchDoneV28_FlagKept(cs, b) ==
  IF BatchSettled(cs, b)
    THEN /\ isPurifyingBatch' = isPurifyingBatch
         /\ directorLog' = LogV28(directorLog, "purify_done")
    ELSE UNCHANGED <<isPurifyingBatch, directorLog>>

\* V28: after await Promise.all: setIsPurifyingBatch(false); log
BatchDoneV28(cs, b) ==
  IF BatchSettled(cs, b)
    THEN /\ isPurifyingBatch' = FALSE
         /\ directorLog' = LogV28(directorLog, "purify_done")
    ELSE UNCHANGED <<isPurifyingBatch, directorLog>>

\* V28 processItem: removeWatermark resolves for call c
ProcessItemResolves(c) ==
  /\ variant = "V28"
  /\ c \in 1..Len(purCalls)
  /\ purCalls[c].outcome = "pending"
  /\ purifyQueue' = SetDone(purifyQueue, purCalls[c].key, Purified(c))
  /\ purCalls' = [purCalls EXCEPT ![c].outcome = "ok"]
  /\ BatchDoneV28(purCalls', purCalls[c].batch)
  /\ UNCHANGED <<variant, images, shots, now>>
  /\ UNCHANGED <<isPurifying, selectedInMatrix, processingBatch, picks>>
  /\ UNCHANGED canvasVars
  /\ UNCHANGED notPur

\* V28 processItem: removeWatermark rejects for call c: the catch
ProcessItemRejects(c) ==
  /\ variant = "V28"
  /\ c \in 1..Len(purCalls)
  /\ purCalls[c].outcome = "pending"
  /\ purifyQueue' = SetError(purifyQueue, purCalls[c].key)
  /\ purCalls' = [purCalls EXCEPT ![c].outcome = "failed"]
  /\ BatchDoneV28(purCalls', purCalls[c].batch)
  /\ UNCHANGED <<variant, images, shots, now>>
  /\ UNCHANGED <<isPurifying, selectedInMatrix, processingBatch, picks>>
  /\ UNCHANGED canvasVars
  /\ UNCHANGED notPur

\* V30 matrix: the checkbox of an image
ToggleSelection(img) ==
  /\ variant = "V30"
  /\ picks < MaxQueue
  /\ picks' = picks + 1
  /\ img \in Range(images)
  /\ selectedInMatrix' = Toggle(selectedInMatrix, img)
  /\ UNCHANGED <<variant, images, shots, directorLog, now>>
  /\ UNCHANGED <<purifyQueue, isPurifyingBatch, isPurifying, processingBatch, purCalls>>
  /\ UNCHANGED canvasVars
  /\ UNCHANGED notPur

\* V30 selectAll
SelectAll ==
  /\ variant = "V30"
  /\ picks < MaxQueue
  /\ picks' = picks + 1
  /\ selectedInMatrix' = (IF Len(selectedInMatrix) = Len(images)
                            THEN <<>> ELSE NewSet(images))
  /\ selectedInMatrix' # selectedInMatrix
  /\ UNCHANGED <<variant, images, shots, directorLog, now>>
  /\ UNCHANGED <<purifyQueue, isPurifyingBatch, isPurifying, processingBatch, purCalls>>
  /\ UNCHANGED canvasVars
  /\ UNCHANGED notPur

\* V30: the mask handed to removeWatermark: the canvas as a JPEG if a pixel of
\* it is painted, undefined if there is no canvas or nothing is painted
MaskData ==
  IF purifyInput # Null /\ HasContent(canvas) THEN ToJpeg(canvas) ELSE Null

\* V30 handlePurifyBatch, up to await Promise.all
HandlePurifyBatchV30 ==
  /\ variant = "V30"
  /\ ~isPurifying
  /\ selectedInMatrix # <<>>
  /\ Len(purCalls) + Len(selectedInMatrix) <= MaxQueue
  /\ LET targets == selectedInMatrix
         b       == LastBatch(purCalls) + 1
     IN  /\ isPurifying' = TRUE
         /\ processingBatch' = Range(targets)
         /\ directorLog' = LogV30(directorLog, "batch_start")
         /\ purCalls' = purCalls \o
              [k \in 1..Len(targets) |-> PurCall(b, targets[k], targets[k], MaskData)]
  /\ UNCHANGED <<variant, images, shots, now>>
  /\ UNCHANGED <<purifyQueue, isPurifyingBatch, selectedInMatrix, picks>>
  /\ UNCHANGED canvasVars
  /\ UNCHANGED notPur

\* V30: after await Promise.all, given what the last callback left in
\* processingBatch
BatchDoneV30(cs, b, processing) ==
  IF BatchSettled(cs, b)
    THEN /\ images' = SuccessResults(cs, b, 1) \o images
         /\ isPurifying' = FALSE
         /\ processingBatch' = {}
         /\ selectedInMatrix' = <<>>
         /\ directorLog' = LogV30(directorLog, "batch_done")
    ELSE /\ processingBatch' = processing
         /\ UNCHANGED <<images, isPurifying, selectedInMatrix, directorLog>>

\* V30 batch: removeWatermark resolves for call c
BatchCallResolves(c) ==
  /\ variant = "V30"
  /\ c \in 1..Len(purCalls)
  /\ purCalls[c].batch > 0
  /\ purCalls[c].outcome = "pending"
  /\ purCalls' = [purCalls EXCEPT ![c].outcome = "ok"]
  /\ BatchDoneV30(purCalls', purCalls[c].batch, processingBatch \ {purCalls[c].key})
  /\ UNCHANGED <<variant, shots, now>>
  /\ UNCHANGED <<purifyQueue, isPurifyingBatch, picks>>
  /\ UNCHANGED canvasVars
  /\ UNCHANGED notPur

\* V30 batch: removeWatermark rejects for call c: console.error, return null
BatchCallRejects(c) ==
  /\ variant = "V30"
  /\ c \in 1..Len(purCalls)
  /\ purCalls[c].batch > 0
  /\ purCalls[c].outcome = "pending"
  /\ purCalls' = [purCalls EXCEPT ![c].outcome = "failed"]
  /\ BatchDoneV30(purCalls', purCalls[c].batch, processingBatch)
  /\ UNCHANGED <<variant, shots, now>>
  /\ UNCHANGED <<purifyQueue, isPurifyingBatch, picks>>
  /\ UNCHANGED canvasVars
  /\ console' = Append(console, "Failed")
  /\ UNCHANGED <<retryVars, pipeOnly, maskVars, partVars, assetVars, storeVars>>

\* V30 handlePurifySingle, up to await removeWatermark
HandlePurifySingle ==
  /\ variant = "V30"
  /\ purifyInput # Null
  /\ ~isPurifying
  /\ Len(purCalls) < MaxQueue
  /\ isPurifying' = TRUE
  /\ purifyOutput' = Null
  /\ purCalls' = Append(purCalls, PurCall(0, purifyInput, purifyInput, MaskData))
  /\ UNCHANGED <<variant, images, shots, directorLog, now>>
  /\ UNCHANGED <<purifyQueue, isPurifyingBatch, selectedInMatrix, processingBatch, picks>>
  /\ UNCHANGED <<purifyInput, canvas>>
  /\ UNCHANGED notPur

\* V30 handlePurifySingle: removeWatermark resolves
SingleResolves(c) ==
  /\ variant = "V30"
  /\ c \in 1..Len(purCalls)
  /\ purCalls[c].batch = 0
  /\ purCalls[c].outcome = "pending"
  /\ purCalls' = [purCalls EXCEPT ![c].outcome = "ok"]
  /\ purifyOutput' = Purified(c)
  /\ directorLog' = LogV30(directorLog, "single_ok")
  /\ isPurifying' = FALSE
  /\ UNCHANGED <<variant, images, shots, now>>
  /\ UNCHANGED <<purifyQueue, isPurifyingBatch, selectedInMatrix, processingBatch, picks>>
  /\ UNCHANGED <<purifyInput, canvas>>
  /\ UNCHANGED notPur

\* V30 handlePurifySingle: removeWatermark rejects: the catch, finally
SingleRejects(c) ==
  /\ variant = "V30"
  /\ c \in 1..Len(purCalls)
  /\ purCalls[c].batch = 0
  /\ purCalls[c].outcome = "pending"
  /\ purCalls' = [purCalls EXCEPT ![c].outcome = "failed"]
  /\ directorLog' = LogV30(directorLog, "single_error")
  /\ isPurifying' = FALSE
  /\ UNCHANGED <<variant, images, shots, now>>
  /\ UNCHANGED <<purifyQueue, isPurifyingBatch, selectedInMatrix, processingBatch, picks>>
  /\ UNCHANGED canvasVars
  /\ UNCHANGED notPur

NextPurify ==
  \/ \E k \in 1..Len(shots), t \in ClickTime : QueueShot(k, t)
  \/ \E t \in DateNow : QueueFile(t)
  \/ HandlePurifyBatch
  \/ \E c \in 1..MaxQueue : ProcessItemResolves(c)
  \/ \E c \in 1..MaxQueue : ProcessItemRejects(c)
  \/ \E img \in Range(images) : ToggleSelection(img)
  \/ SelectAll
  \/ HandlePurifyBatchV30
  \/ \E c \in 1..MaxQueue : BatchCallResolves(c)
  \/ \E c \in 1..MaxQueue : BatchCallRejects(c)
  \/ HandlePurifySingle
  \/ \E c \in 1..MaxQueue : SingleResolves(c)
  \/ \E c \in 1..MaxQueue : SingleRejects(c)

SpecPurify == InitPurify /\ [][NextPurify]_vars

(***************************************************************************)
(* App (V30): the mask canvas of the purifier, with the purifier open.     *)
(* An image load is in flight from the assignment of src until its onload  *)
(* runs; loads complete in any order.                                      *)
(***************************************************************************)
InitMask ==
  /\ variant = "V30"
  /\ images = SubSeq(Matrix, 1, 2)
  /\ shots = <<>>
  /\ directorLog = <<>>
  /\ now = 0
  /\ PipeOnlyAtRest
  /\ PurAtRest
  /\ AssetsAtRest
  /\ StoreAtRest
  /\ CanvasAtRest
  /\ MaskAtRest
  /\ RetryAtRest
  /\ PartsAtRest

\* what lastOp records of an operation that is not an undo
Op(name) == [op |-> name, quiet |-> FALSE, before |-> <<>>]

\* the sequence without its k-th element
Remove(seq, k) == SubSeq(seq, 1, k - 1) \o SubSeq(seq, k + 1, Len(seq))

\* matrix thumbnail onClick: setPurifyInput(img); setPurifyOutput(null); the
\* effect then calls syncCanvasSize, which loads the image
SelectImage(img) ==
  /\ variant = "V30"
  /\ gestures < MaxGestures
  /\ gestures' = gestures + 1
  /\ img \in Range(images)
  /\ img # purifyInput
  /\ ~isDrawing
  /\ Len(loads) < MaxLoads
  /\ purifyInput' = img
  /\ purifyOutput' = Null
  /\ canvas' = (IF purifyInput = Null THEN Transparent ELSE canvas)
  /\ loads' = Append(loads, SyncLoad(img, HistoryOf(maskHistory, img)))
  /\ lastOp' = Op("select")
  /\ UNCHANGED <<maskHistory, isDrawing, strokes>>
  /\ UNCHANGED notMask

\* startDrawing (mouse down on the canvas)
StartDrawing ==
  /\ variant = "V30"
  /\ purifyInput # Null
  /\ purifyOutput = Null
  /\ ~isDrawing
  /\ strokes < MaxStrokes
  /\ isDrawing' = TRUE
  /\ strokes' = strokes + 1
  /\ lastOp' = Op("stroke")
  /\ UNCHANGED <<purifyInput, purifyOutput, canvas, maskHistory, loads>>
  /\ UNCHANGED gestures
  /\ UNCHANGED notMask

\* draw (mouse move on the canvas while drawing)
Draw ==
  /\ variant = "V30"
  /\ isDrawing
  /\ canvas' = Stroke(canvas, strokes)
  /\ canvas' # canvas
  /\ UNCHANGED <<purifyInput, purifyOutput, maskHistory, isDrawing, strokes, loads, lastOp>>
  /\ UNCHANGED gestures
  /\ UNCHANGED notMask

\* stopDrawing (mouse up, mouse leave): the canvas is appended to the history
\* of the active image; the effect then calls syncCanvasSize
StopDrawing ==
  /\ variant = "V30"
  /\ isDrawing
  /\ Len(loads) < MaxLoads
  /\ isDrawing' = FALSE
  /\ LET history == Append(HistoryOf(maskHistory, purifyInput), ToDataURL(canvas))
     IN  /\ maskHistory' = WithHistory(maskHistory, purifyInput, history)
         /\ loads' = Append(loads, SyncLoad(purifyInput, history))
  /\ lastOp' = Op("stroke")
  /\ UNCHANGED <<purifyInput, purifyOutput, canvas, strokes>>
  /\ UNCHANGED gestures
  /\ UNCHANGED notMask

\* handleUndo (the undo button, Ctrl+Z); the effect then calls syncCanvasSize
HandleUndo ==
  /\ variant = "V30"
  /\ gestures < MaxGestures
  /\ gestures' = gestures + 1
  /\ purifyInput # Null
  /\ LET history == HistoryOf(maskHistory, purifyInput)
     IN  /\ lastOp' = [op |-> "undo", quiet |-> (loads = <<>> /\ ~isDrawing),
                       before |-> history]
         /\ IF Len(history) <= 1
              THEN /\ Len(loads) < MaxLoads
                   /\ canvas' = Black
                   /\ maskHistory' = WithHistory(maskHistory, purifyInput, <<>>)
                   /\ loads' = Append(loads, SyncLoad(purifyInput, <<>>))
              ELSE LET nextHistory == DropLast(history)
                       \* if (ctx && lastState): lastState is undefined if
                       \* nextHistory is empty
                       redraw == IF nextHistory # <<>>
                                   THEN <<UndoLoad(nextHistory[Len(nextHistory)])>>
                                   ELSE <<>>
                   IN  /\ Len(loads) + 1 < MaxLoads
                       /\ maskHistory' = WithHistory(maskHistory, purifyInput, nextHistory)
                       /\ loads' = loads \o redraw \o
                                     <<SyncLoad(purifyInput, nextHistory)>>
                       /\ UNCHANGED canvas
  /\ UNCHANGED <<purifyInput, purifyOutput, isDrawing, strokes>>
  /\ UNCHANGED notMask

\* clearMask (the clear button); the effect then calls syncCanvasSize
ClearMask ==
  /\ variant = "V30"
  /\ gestures < MaxGestures
  /\ gestures' = gestures + 1
  /\ purifyInput # Null
  /\ ~isDrawing
  /\ Len(loads) < MaxLoads
  /\ canvas' = Black
  /\ maskHistory' = WithHistory(maskHistory, purifyInput, <<>>)
  /\ loads' = Append(loads, SyncLoad(purifyInput, <<>>))
  /\ lastOp' = Op("clear")
  /\ UNCHANGED <<purifyInput, purifyOutput, isDrawing, strokes>>
  /\ UNCHANGED notMask

\* handleUndo, img.onload: fill black, draw the snapshot
UndoImageLoads(k) ==
  /\ k \in 1..Len(loads)
  /\ loads[k].kind = "undo"
  /\ canvas' = DrawImage(Black, Decode(loads[k].draw))
  /\ loads' = Remove(loads, k)
  /\ UNCHANGED <<purifyInput, purifyOutput, maskHistory, isDrawing, strokes, lastOp>>
  /\ UNCHANGED gestures
  /\ UNCHANGED notMask

\* syncCanvasSize, img.onload: the canvas is resized (which clears it); then
\* the last snapshot of the history is loaded, or the canvas is filled black
SyncImageLoads(k) ==
  /\ k \in 1..Len(loads)
  /\ loads[k].kind = "sync"
  /\ LET history == loads[k].history
     IN  IF Len(history) > 0
           THEN /\ canvas' = Transparent
                /\ loads' = Append(Remove(loads, k), MaskLoad(history[Len(history)]))
           ELSE /\ canvas' = Black
                /\ loads' = Remove(loads, k)
  /\ UNCHANGED <<purifyInput, purifyOutput, maskHistory, isDrawing, strokes, lastOp>>
  /\ UNCHANGED gestures
  /\ UNCHANGED notMask

\* syncCanvasSize, maskImg.onload: ctx.drawImage(maskImg, 0, 0)
MaskImageLoads(k) ==
  /\ k \in 1..Len(loads)
  /\ loads[k].kind = "mask"
  /\ canvas' = DrawImage(canvas, Decode(loads[k].draw))
  /\ loads' = Remove(loads, k)
  /\ UNCHANGED <<purifyInput, purifyOutput, maskHistory, isDrawing, strokes, lastOp>>
  /\ UNCHANGED gestures
  /\ UNCHANGED notMask

NextMask ==
  \/ \E img \in Range(images) : SelectImage(img)
  \/ StartDrawing
  \/ Draw
  \/ StopDrawing
  \/ HandleUndo
  \/ ClearMask
  \/ \E k \in 1..MaxLoads : UndoImageLoads(k)
  \/ \E k \in 1..MaxLoads : SyncImageLoads(k)
  \/ \E k \in 1..MaxLoads : MaskImageLoads(k)

SpecMask == InitMask /\ [][NextMask]_vars

(***************************************************************************)
(* geminiService: distillStyle and removeWatermark build the image parts   *)
(* of their request.                                                       *)
(***************************************************************************)
InitParts ==
  /\ \/ /\ callOp = "distillStyle"
        /\ imageArgs \in UNION {[1..n -> ImageInputs] : n \in 1..MaxImages}
        /\ maskArg = NoImage
     \/ /\ callOp = "removeWatermark"
        /\ imageArgs \in [1..1 -> ImageInputs]
        /\ maskArg \in {NoImage} \cup ImageInputs
  /\ parts = <<>>
  /\ RetryAtRest
  /\ PipeAtRest
  /\ PurAtRest
  /\ AssetsAtRest
  /\ StoreAtRest
  /\ CanvasAtRest
  /\ MaskAtRest

\* distillStyle: imageB64s.map(data => ({ inlineData: { ..., data: ... } }))
DistillStyleParts ==
  /\ callOp = "distillStyle"
  /\ parts = <<>>
  /\ parts' = [k \in 1..Len(imageArgs) |-> StripPrefix(TextOf(imageArgs[k]))]
  /\ UNCHANGED <<callOp, imageArgs, maskArg>>
  /\ UNCHANGED notParts

\* removeWatermark: the part of the image, and, if (maskB64), of the mask
RemoveWatermarkParts ==
  /\ callOp = "removeWatermark"
  /\ parts = <<>>
  /\ parts' = <<StripPrefix(TextOf(imageArgs[1]))>> \o
              (IF maskArg # NoImage /\ TextOf(maskArg) # <<>>
                 THEN <<StripPrefix(TextOf(maskArg))>> ELSE <<>>)
  /\ UNCHANGED <<callOp, imageArgs, maskArg>>
  /\ UNCHANGED notParts

NextParts ==
  \/ DistillStyleParts
  \/ RemoveWatermarkParts

SpecParts == InitParts /\ [][NextParts]_vars

(***************************************************************************)
(* App (V28): the asset library, and the image parts renderShot builds     *)
(* from it.                                                                *)
(***************************************************************************)
\* the payload of the j-th image of the n-th asset saved
AssetPayload(n, j) == [k \in 1..n |-> "A"] \o [k \in 1..j |-> "/"]

\* the url of an asset image: the data URL compressImage resolves with
AssetUrl(n, j) == DataUrlPrefix \o AssetPayload(n, j)

\* newAssetImages: the images of the asset creator, each with the flag its
\* toggle button has left
NewAssetImages(n, flags) ==
  [j \in 1..Len(flags) |-> [url |-> AssetUrl(n, j), isActive |-> flags[j]]]

\* { id: `asset-${Date.now()}`, name, type, images, isActive: true }
NewAsset(n, type, imgs) ==
  [id |-> <<"asset", n>>, name |-> <<"name", n>>, type |-> type,
   images |-> imgs, isActive |-> TRUE]

\* assets.filter(a => a.isActive && a.type === type)
ActiveAssets(list, type) ==
  SelectSeq(list, LAMBDA a : a.isActive /\ a.type = type)

\* asset.images.find(img => img.isActive)?.url (<<>> stands for undefined)
GetActiveImg(asset) ==
  LET active == SelectSeq(asset.images, LAMBDA img : img.isActive)
  IN  IF active = <<>> THEN <<>> ELSE active[1].url

\* the parts of a render request
ImagePart(data)        == [kind |-> "image", data |-> data, text |-> <<>>]
TextPart(label, name)  == [kind |-> "text", data |-> <<>>, text |-> <<label, name>>]
PromptPart             == TextPart("PROMPT", <<"final">>)

\* list.forEach(asset => { const url = getActiveImg(asset); if (url) { push
\* the image; push the label } })
RECURSIVE ReferenceParts(_, _)
ReferenceParts(list, label) ==
  IF list = <<>> THEN <<>>
  ELSE LET asset == Head(list)
           url   == GetActiveImg(asset)
       IN  (IF url # <<>>
              THEN <<ImagePart(StripPrefix(url)), TextPart(label, asset.name)>>
              ELSE <<>>)
             \o ReferenceParts(Tail(list), label)

\* renderShot: the parts of the request
RenderShotPartsOf(charAssets, sceneAssets) ==
  ReferenceParts(charAssets, "REFERENCE CHARACTER")
    \o ReferenceParts(sceneAssets, "REFERENCE SCENE")
    \o <<PromptPart>>

InitAssets ==
  /\ AssetsAtRest
  /\ StoreAtRest
  /\ RetryAtRest
  /\ PipeAtRest
  /\ PurAtRest
  /\ CanvasAtRest
  /\ MaskAtRest
  /\ PartsAtRest

\* saveAsset for a new asset (the flags of its images were set by the toggle
\* buttons of the asset creator)
SaveAsset(type, flags) ==
  /\ renderParts = <<>>
  /\ Len(assets) < MaxAssets
  /\ LET n == Len(assets) + 1
     IN  assets' = Append(assets, NewAsset(n, type, NewAssetImages(n, flags)))
  /\ directorLog' = LogV28(directorLog, "asset_saved")
  /\ UNCHANGED <<toggles, renderParts>>
  /\ UNCHANGED notAssets

\* toggleAssetStatus(id)
ToggleAssetStatus(id) ==
  /\ renderParts = <<>>
  /\ toggles < MaxToggles
  /\ toggles' = toggles + 1
  /\ \E k \in 1..Len(assets) : assets[k].id = id
  /\ assets' = [k \in 1..Len(assets) |->
                  IF assets[k].id = id
                    THEN [assets[k] EXCEPT !.isActive = ~assets[k].isActive]
                    ELSE assets[k]]
  /\ directorLog' = LogV28(directorLog, "asset_toggled")
  /\ UNCHANGED renderParts
  /\ UNCHANGED notAssets

\* handleDeduct, the render of a shot: the enabled assets are filtered by
\* type and renderShot builds the parts of its request
RenderShotParts ==
  /\ renderParts = <<>>
  /\ renderParts' = RenderShotPartsOf(ActiveAssets(assets, "character"),
                                      ActiveAssets(assets, "scene"))
  /\ UNCHANGED <<assets, toggles, directorLog>>
  /\ UNCHANGED notAssets

NextAssets ==
  \/ \E type \in {"character", "scene"}, n \in 1..MaxAssetImages :
       \E flags \in [1..n -> BOOLEAN] : SaveAsset(type, flags)
  \/ \E n \in 1..MaxAssets : ToggleAssetStatus(<<"asset", n>>)
  \/ RenderShotParts

SpecAssets == InitAssets /\ [][NextAssets]_vars

(***************************************************************************)
(* App: persistence.  initApp reads the session from the store; the effect *)
(* on [style, script, images, shots, ..., isLoaded] writes it back.        *)
(***************************************************************************)
\* the session the component holds
AppState == [script |-> script, style |-> style, images |-> images, shots |-> shots]

\* if (sScript), if (sStyle), ...: the empty string and null are falsy, an
\* array is truthy
Truthy(key, value) ==
  CASE key = "script" -> value # <<>>
    [] key = "style"  -> value # Null
    [] OTHER          -> TRUE

\* if (sX) setX(sX), for every key
Restored(st, state) ==
  [key \in StoreKeys |->
     IF key \in st.has /\ Truthy(key, st.val[key]) THEN st.val[key] ELSE state[key]]

\* the effect: db.set(key, value) for every key; written are the keys whose
\* put request succeeds
Written(st, state, ok) ==
  [has |-> st.has \cup ok,
   val |-> [key \in StoreKeys |-> IF key \in ok THEN state[key] ELSE st.val[key]]]

\* the stores a session can find: empty (first visit), or the records that
\* an earlier session wrote
StoresFound(v) ==
  {EmptyStore} \cup
  {[has |-> StoreKeys,
    val |-> [script |-> se.script, style |-> se.style, images |-> se.images,
             shots |-> se.shots]] : se \in Sessions(v)}

\* a script the user types
TypedScript == <<"c">>

InitStore ==
  /\ variant \in {"V28", "V30"}
  /\ store \in StoresFound(variant)
  /\ isLoaded = FALSE
  /\ initPc = "loading"
  /\ images = <<>>
  /\ shots = <<>>
  /\ directorLog = (IF variant = "V28" THEN <<"boot">> ELSE <<>>)
  /\ now = 0
  /\ PipeOnlyAtRest
  /\ RetryAtRest
  /\ PurAtRest
  /\ CanvasAtRest
  /\ MaskAtRest
  /\ PartsAtRest
  /\ AssetsAtRest

\* initApp: await Promise.all([db.get(...), ...]) resolves: the records found
\* are put into the state, setIsLoaded(true); the effect then writes
InitAppLoaded(ok) ==
  /\ initPc = "loading"
  /\ LET state == Restored(store, AppState)
     IN  /\ script' = state.script
         /\ style' = state.style
         /\ images' = state.images
         /\ shots' = state.shots
         /\ store' = Written(store, state, ok)
  /\ isLoaded' = TRUE
  /\ initPc' = "loaded"
  /\ UNCHANGED <<variant, hasApiKey, status, shotCount, directorLog, now, runs,
                 distills, issued, clicks, edits, aistudio>>
  /\ UNCHANGED notStore

\* initApp: a db.get rejects.  V28: catch (log), finally setIsLoaded(true),
\* and the effect writes; V30: the rejection is not handled, isLoaded stays
\* false
InitAppFailed(ok) ==
  /\ initPc = "loading"
  /\ initPc' = "failed"
  /\ IF variant = "V28"
       THEN /\ directorLog' = LogV28(directorLog, "load_error")
            /\ isLoaded' = TRUE
            /\ store' = Written(store, AppState, ok)
       ELSE /\ ok = {}
            /\ UNCHANGED <<directorLog, isLoaded, store>>
  /\ UNCHANGED <<variant, hasApiKey, script, style, images, shots, status,
                 shotCount, now, runs, distills, issued, clicks, edits, aistudio>>
  /\ UNCHANGED notStore

\* the script editor, onChange: setScript; the effect writes if (isLoaded)
TypeScript(text, ok) ==
  /\ text # script
  /\ script' = text
  /\ IF isLoaded
       THEN store' = Written(store, [AppState EXCEPT !.script = text], ok)
       ELSE ok = {} /\ UNCHANGED store
  /\ UNCHANGED <<isLoaded, initPc>>
  /\ UNCHANGED <<variant, hasApiKey, style, images, shots, status, shotCount,
                 directorLog, now, runs, distills, issued, clicks, edits, aistudio>>
  /\ UNCHANGED notStore

\* the file input of the DNA lab, reader.onload: setImages; the effect
\* writes if (isLoaded)
AddImage(ok) ==
  /\ Len(images) < MaxImages
  /\ images' = Append(images, RefImage)
  /\ IF isLoaded
       THEN store' = Written(store, [AppState EXCEPT !.images = images'], ok)
       ELSE ok = {} /\ UNCHANGED store
  /\ UNCHANGED <<isLoaded, initPc>>
  /\ UNCHANGED <<variant, hasApiKey, script, style, shots, status, shotCount,
                 directorLog, now, runs, distills, issued, clicks, edits, aistudio>>
  /\ UNCHANGED notStore

NextStore ==
  \/ \E ok \in SUBSET StoreKeys : InitAppLoaded(ok)
  \/ \E ok \in SUBSET StoreKeys : InitAppFailed(ok)
  \/ \E text \in {TypedScript, SomeScript}, ok \in SUBSET StoreKeys : TypeScript(text, ok)
  \/ \E ok \in SUBSET StoreKeys : AddImage(ok)

SpecStore == InitStore /\ [][NextStore]_vars

(***************************************************************************)
(* Properties of the production pipeline (checked under SpecPipe).         *)
(***************************************************************************)
NoPlaceholderIn(seq) == \A k \in 1..Len(seq) : ~IsPlaceholder(seq[k])

\* C2: a click on the storyboard button while the script is empty or no style
\* profile is present issues no remote request, starts no run and does not
\* change the status (a status that was Idle stays Idle).
C2_RefusedStartIssuesNothing ==
  [][ (clicks' # clicks /\ (script = EmptyScript \/ style = Null))
        => /\ issued' = issued
           /\ runs' = runs
           /\ status' = status ]_vars

\* V28 has refused a start for the missing style, and nothing was requested
C2_Witness ==
  /\ clicks >= 1
  /\ directorLog # <<>> /\ directorLog[1] = "blocked_style"
  /\ status = "IDLE"
  /\ issued = NoRequests
  /\ Started = {}

\* C5 (handleDeduct): when deductStoryboard fails, the step that handles the
\* failure leaves no placeholder in the shot sequence, puts the error at the
\* head of the log and sets the status to Idle; and once a run has failed,
\* placeholders are in the shot sequence only while another run still waits
\* for its deduction.
C5_FailedDeductionCleansUp ==
  /\ [][ \A r \in 1..MaxRuns :
           (variant = "V28" /\ runs[r].pc = "deduct" /\ runs'[r].pc = "failed")
             => /\ NoPlaceholderIn(shots')
                /\ \A k \in 1..Len(shots') : shots'[k].id \notin
                                              {runs[r].ph[j] : j \in 1..Len(runs[r].ph)}
                /\ directorLog'[1] = "deduct_error"
                /\ status' = "IDLE" ]_vars
  /\ [](( /\ variant = "V28"
          /\ \E r \in 1..MaxRuns : runs[r].pc = "failed"
          /\ \A r \in 1..MaxRuns : runs[r].pc # "deduct")
        => NoPlaceholderIn(shots))

\* a run of handleDeduct has failed; the restored finished shot is still there
C5_Witness ==
  /\ variant = "V28"
  /\ \E r \in 1..MaxRuns : runs[r].pc = "failed" /\ Len(runs[r].ph) = 2
  /\ directorLog[1] = "deduct_error"
  /\ status = "IDLE"
  /\ Len(shots) = 1 /\ shots[1].id = ShotId(0, 0)

\* C6: a failure of renderShot for one shot does not abort the run: when the
\* run is over, renderShot has been attempted for every shot of its batch.
C6_EveryShotAttempted ==
  \A r \in 1..MaxRuns :
    runs[r].pc \in {"done", "aborted"}
      => /\ runs[r].pc = "done"
         /\ Len(runs[r].tried) = Len(runs[r].newShots)

(***************************************************************************)
(* Properties of withRetry (checked under SpecRetry).                      *)
(***************************************************************************)
RetryTerminated == rpc \in {"returned", "thrown"}

\* attempt k (1-based) has settled
AttemptSettled(k) == k < calls \/ (k = calls /\ rpc # "await_fn")

\* the texts of ErrorTexts that carry "429" or "quota" in some letter case
MarkedTexts == {TextHttp429, TextQuota}

\* the texts of ErrorTexts that carry a marker of the vocabulary of the
\* specification: 429, quota, limit, exhausted, or a localized equivalent
SpecVocabularyTexts == {TextHttp429, TextQuota, TextLimit, TextExhausted, TextCuota}

QuotaFailure(k) == ~fn[k].ok /\ fn[k].err \in MarkedTexts

\* N: the number of consecutive quota-marked failures the operation starts with
LeadingQuotaFailures ==
  CHOOSE n \in 0..MaxRetriesBound :
    /\ \A k \in 1..n : QuotaFailure(k)
    /\ n = MaxRetriesBound \/ ~QuotaFailure(n + 1)

MinOf(a, b) == IF a < b THEN a ELSE b

\* C1: fn is invoked again after a failure only if that failure carries a
\* quota marker and attempts remain; for N consecutive quota-marked failures
\* at least min(maxRetries, N) and never more than maxRetries attempts are
\* made; after a failure without a quota marker there is no further attempt
\* and no delay.
C1_RetryOnlyQuotaFailures ==
  /\ calls <= maxRetries
  /\ \A k \in 1..(calls - 1) : QuotaFailure(k) /\ k < maxRetries
  /\ RetryTerminated => calls >= MinOf(maxRetries, LeadingQuotaFailures)
  /\ \A k \in 1..calls :
       (AttemptSettled(k) /\ ~fn[k].ok /\ fn[k].err \notin MarkedTexts)
         => /\ calls = k
            /\ rpc = "thrown"
            /\ settled = fn[k]
            /\ Len(waits) = k - 1

\* a run that retried once and then stopped at a failure without a marker
C1_Witness ==
  /\ rpc = "thrown"
  /\ calls = 2
  /\ QuotaFailure(1)
  /\ ~fn[2].ok /\ fn[2].err \notin MarkedTexts
  /\ maxRetries >= 3

\* C7: with a maximum attempt count of 0 or 1 there is no retry and no delay,
\* and the error that propagates is the first failure of the operation.
C7_FirstFailurePropagates ==
  (maxRetries <= 1 /\ RetryTerminated) =>
     /\ calls <= 1
     /\ waits = <<>>
     /\ rpc = "thrown" => (calls = 1 /\ ~fn[1].ok /\ settled = fn[1])

\* C8: when every attempt up to maxRetries fails with a quota-marked error,
\* the error of the last attempt propagates, and no delay is waited after
\* that last failure.
C8_LastErrorWithoutDelay ==
  /\ rpc = "delay" => calls < maxRetries
  /\ (/\ RetryTerminated
      /\ maxRetries >= 1
      /\ calls = maxRetries
      /\ \A k \in 1..maxRetries : QuotaFailure(k))
       => /\ rpc = "thrown"
          /\ settled = fn[maxRetries]
          /\ Len(waits) = maxRetries - 1

\* all maxRetries >= 2 attempts failed with a quota-marked error
C8_Witness ==
  /\ rpc = "thrown"
  /\ maxRetries >= 2
  /\ calls = maxRetries
  /\ \A k \in 1..maxRetries : QuotaFailure(k)
  /\ fn[1] # fn[maxRetries]

CallsFor(id) == {c \in 1..Len(purCalls) : purCalls[c].key = id}

\* V28: the state of a queue item follows from its own call alone
ItemFollowsOwnCall ==
  \A k \in 1..Len(purifyQueue) :
    LET p == purifyQueue[k]
    IN  /\ CallsFor(p.id) = {} => (p.status = "pending" /\ p.output = Null)
        /\ \A c \in CallsFor(p.id) :
             /\ purCalls[c].outcome = "pending" =>
                  (p.status = "working" /\ p.output = Null)
             /\ purCalls[c].outcome = "ok" =>
                  (p.status = "done" /\ p.output = Purified(c))
             /\ purCalls[c].outcome = "failed" =>
                  (p.status = "error" /\ p.output = Null)

\* V30: a target of a batch has no status field; while its batch runs it is
\* marked as long as its call has not resolved, and once the batch is over
\* its result is among the images exactly if its call resolved
TargetFollowsOwnCall ==
  \A c \in 1..Len(purCalls) :
    purCalls[c].batch > 0 =>
      IF \A d \in 1..Len(purCalls) :
           purCalls[d].batch = purCalls[c].batch => purCalls[d].outcome # "pending"
        THEN (purCalls[c].outcome = "ok" <=> Purified(c) \in Range(images))
        ELSE /\ Purified(c) \notin Range(images)
             /\ (purCalls[c].key \in processingBatch <=> purCalls[c].outcome # "ok")

\* V28: the step in which a call settles leaves every other item as it is
OthersUntouched ==
  \A c \in 1..Len(purCalls) :
    (purCalls[c].outcome = "pending" /\ purCalls'[c].outcome # "pending") =>
      \A k \in 1..Len(purifyQueue) :
        purifyQueue[k].id # purCalls[c].key => purifyQueue'[k] = purifyQueue[k]

StatusMoves ==
  {<<"pending", "working">>, <<"working", "done">>, <<"working", "error">>}

\* V28: the queue only grows at its end, and an item that is there keeps its
\* id and either keeps its status or makes one of the moves above
StatusAdvances ==
  /\ Len(purifyQueue') >= Len(purifyQueue)
  /\ \A k \in 1..Len(purifyQueue) :
       /\ purifyQueue'[k].id = purifyQueue[k].id
       /\ \/ purifyQueue'[k].status = purifyQueue[k].status
          \/ <<purifyQueue[k].status, purifyQueue'[k].status>> \in StatusMoves

\* V28: a removeWatermark call made in this step is made for an item that was
\* pending before the step, with the input of that item
OnlyPendingSubmitted ==
  /\ Len(purCalls') >= Len(purCalls)
  /\ \A c \in (Len(purCalls) + 1)..Len(purCalls') :
       \E k \in 1..Len(purifyQueue) :
         /\ purifyQueue[k].id = purCalls'[c].key
         /\ purifyQueue[k].status = "pending"
         /\ purifyQueue[k].input = purCalls'[c].input

\* V28: no item of the queue has had more than one removeWatermark call
SubmittedAtMostOnce ==
  \A k \in 1..Len(purifyQueue) : Cardinality(CallsFor(purifyQueue[k].id)) <= 1

\* C30: the status of an item of the purify queue only advances pending ->
\* working -> done or error, done and error are final, a batch submits only
\* the items that are pending when it starts, and over any sequence of batch
\* starts removeWatermark is called at most once for each item.
C30_ItemStatusAdvancesOnce ==
  /\ [][variant = "V28" => (StatusAdvances /\ OnlyPendingSubmitted)]_vars
  /\ [](variant = "V28" => SubmittedAtMostOnce)

\* a second batch has been started after a first one left one item done and
\* one in error: only the item queued since then was submitted
C30_Witness ==
  /\ variant = "V28"
  /\ Len(purifyQueue) = 3
  /\ [k \in 1..3 |-> purifyQueue[k].status] = <<"done", "error", "working">>
  /\ Len(purCalls) = 3
  /\ [c \in 1..3 |-> purCalls[c].batch] = <<1, 1, 2>>
  /\ purCalls[3].key = purifyQueue[3].id

(***************************************************************************)
(* Properties of the mask canvas (checked under SpecMask).                 *)
(***************************************************************************)
\* the step is a run of handleUndo: only handleUndo leaves "undo" in lastOp,
\* and it starts at least one image load, which no onload does
UndoStep == lastOp'.op = "undo" /\ Len(loads') > Len(loads)

\* what handleUndo does to the history of the active image and to the canvas
UndoPops ==
  UndoStep =>
    LET before == HistoryOf(maskHistory, purifyInput)
        after  == HistoryOf(maskHistory', purifyInput)
    IN  IF Len(before) <= 1
          THEN /\ after = <<>>
               /\ canvas' = Black
          ELSE /\ Len(after) = Len(before) - 1
               /\ \A k \in 1..Len(after) : after[k] = before[k]
               /\ \E k \in 1..Len(loads') :
                    /\ k > Len(loads)
                    /\ loads'[k].kind = "undo"
                    /\ loads'[k].draw = after[Len(after)]

\* the canvas shows the snapshot: it shows the strokes of the snapshot and no
\* other, and it is the bitmap of the snapshot, pixel by pixel, unless the
\* snapshot was taken of a canvas that had not been filled yet
Shows(c, snapshot) ==
  /\ c.ink = Decode(snapshot).ink
  /\ Decode(snapshot).bg = "black" => c = Decode(snapshot)

\* the onload of handleUndo's image leaves exactly that snapshot on the canvas
UndoRedraws ==
  \A k \in 1..Len(loads) :
    (/\ loads[k].kind = "undo"
     /\ loads' = SubSeq(loads, 1, k - 1) \o SubSeq(loads, k + 1, Len(loads)))
      => Shows(canvas', loads[k].draw)

\* an undo made while nothing else was going on has, once its loads are over,
\* the history without its last snapshot and on the canvas the new last
\* snapshot, or the blank (black) canvas
UndoSettled ==
  (lastOp.op = "undo" /\ lastOp.quiet /\ loads = <<>> /\ ~isDrawing) =>
    LET history == HistoryOf(maskHistory, purifyInput)
    IN  /\ history = (IF Len(lastOp.before) <= 1 THEN <<>>
                      ELSE SubSeq(lastOp.before, 1, Len(lastOp.before) - 1))
        /\ IF history = <<>> THEN canvas = Black
                             ELSE Shows(canvas, history[Len(history)])

C11_SuccessValueReturned ==
  /\ [](\A k \in 1..calls :
          (AttemptSettled(k) /\ fn[k].ok) =>
            /\ k = calls
            /\ rpc = "returned"
            /\ settled = Resolved(fn[k].val))
  /\ [](rpc = "returned" => fn[calls].ok)
  /\ [][rpc = "returned" => (calls' = calls /\ settled' = settled)]_vars

\* the third attempt succeeded after two quota failures and its value, which
\* is not the default one, was returned
C11_Witness ==
  /\ rpc = "returned"
  /\ calls = 3
  /\ ~fn[1].ok /\ ~fn[2].ok
  /\ fn[3] = Resolved("v2")
  /\ settled = Resolved("v2")
  /\ Len(waits) = 2

\* C20: every retry of withRetry is observable: whenever the operation is
\* invoked again, every wait computed so far has its entry, in the log of
\* the application or on the console.
C20_RetryLogged ==
  rpc = "await_fn" => Len(console) + Len(directorLog) >= Len(waits)

(***************************************************************************)
(* Further properties of the production pipeline (checked under SpecPipe). *)
(***************************************************************************)
\* run r has received the shots of its deductStoryboard call
Deduced(r) == runs[r].pc \in {"render", "pause", "done", "aborted"}

\* C12: deductStoryboard fails when the array of the response has not the
\* length count (or an element lacks a required field): no run ever receives
\* a shot sequence whose length is not the count it asked for.
C12_WrongLengthRejected ==
  \A r \in 1..MaxRuns : Deduced(r) => Len(runs[r].newShots) = runs[r].count

\* C13: in every reachable state the shots of the shot sequence have pairwise
\* distinct identities.
C13_ShotIdsDistinct ==
  \A j, k \in 1..Len(shots) : j # k => shots[j].id # shots[k].id

(***************************************************************************)
(* Properties of the image parts of a request (checked under SpecParts).   *)
(***************************************************************************)
\* the image inputs of the call that have a part, in the order of the parts
PartInputs ==
  IF parts = <<>> THEN <<>>
  ELSE IF Len(parts) > Len(imageArgs) THEN Append(imageArgs, maskArg)
  ELSE imageArgs

RendersInOrder(r) ==
  /\ runs[r].pc \in {"none", "deduct", "failed"} => runs[r].tried = <<>>
  /\ Len(runs[r].tried) <= Len(runs[r].newShots)
  /\ \A j \in 1..Len(runs[r].tried) : runs[r].tried[j] = j - 1
  /\ runs[r].pc = "render" => runs[r].k = Len(runs[r].tried) - 1

\* a step that issues a renderShot request of run r issues one, for the next
\* shot, and the request the run had in flight, if any, settles in that step
RendersOneAtATime(r) ==
  runs'[r].tried # runs[r].tried =>
    /\ runs'[r].tried = Append(runs[r].tried, Len(runs[r].tried))
    /\ runs[r].pc \in {"deduct", "render", "pause"}
    /\ runs[r].pc = "render" => runs[r].k = Len(runs[r].tried) - 1
    /\ runs'[r].pc = "render" /\ runs'[r].k = Len(runs[r].tried)

\* C15: within one run no renderShot request is issued before the run's
\* deductStoryboard call has completed, the requests are issued in the order
\* of the produced shots, and at most one of them is in flight at a time.
C15_RendersOneByOneInOrder ==
  /\ [](\A r \in 1..MaxRuns : RendersInOrder(r))
  /\ [][\A r \in 1..MaxRuns : RendersOneAtATime(r)]_vars

\* the second of two produced shots is being rendered, the first has its image
C15_Witness ==
  \E r \in 1..MaxRuns :
    /\ runs[r].pc = "render"
    /\ Len(runs[r].newShots) = 2
    /\ runs[r].tried = <<0, 1>>
    /\ \E k \in 1..Len(shots) :
         shots[k].id = runs[r].newShots[1] /\ shots[k].imageUrl # Null

\* the identities of the entries that belong to run q: its placeholders and
\* the shots its deductStoryboard call produced
OwnedBy(q) == Range(runs[q].ph) \cup Range(runs[q].newShots)

\* the entries of a shot sequence with these identities, in their order
EntriesOf(seq, ids) == SelectSeq(seq, LAMBDA e : e.id \in ids)

\* the step is a completion of a remote call of run r
CompletionOf(r) == runs[r].pc \in {"deduct", "render"} /\ runs'[r] # runs[r]

\* C16: when a run has been started while an earlier run is still settling, a
\* late completion of the earlier run (its deduction result, its deduction
\* failure, a render result) neither modifies nor removes the placeholders
\* and the shots of the later run.
C16_LateCompletionTouchesOwnOnly ==
  [][\A r, q \in 1..MaxRuns :
       (r < q /\ runs[q].pc # "none" /\ CompletionOf(r)) =>
         EntriesOf(shots', OwnedBy(q)) = EntriesOf(shots, OwnedBy(q))]_vars

\* run r is over: its handler has returned
RunOver(r) == runs[r].pc \in {"done", "aborted", "failed"}

\* C17: the step in which a run ends sets the status to Idle, and by then
\* renderShot has been attempted for every shot the run's deduction produced,
\* whatever the renders before it settled with.
C17_RunEndsIdleAllAttempted ==
  [][\A r \in 1..MaxRuns :
       (~RunOver(r) /\ RunOver(r)') =>
         /\ status' = "IDLE"
         /\ Len(runs'[r].tried) = Len(runs'[r].newShots)]_vars

\* the preconditions a click on the deduce button finds violated
ScriptRefused == IF variant = "V28" THEN IsScriptMissing(script) ELSE script = <<>>
StyleRefused  == IF variant = "V28" THEN IsStyleMissing(style) ELSE style = Null

\* the step puts this entry among the entries it adds at the head of the log
Surfaces(entry) ==
  /\ directorLog' # directorLog
  /\ \E k \in 1..2 : k <= Len(directorLog') /\ directorLog'[k] = entry

\* C19: a click on the deduce button that is refused because the script is
\* empty or no style is present tells the user which of the two is missing:
\* the step adds a log entry that names the script, respectively the style.
C19_RefusalNamesPrecondition ==
  [][(HandleDeductBlocked \/ StoryboardRefused) =>
       /\ ScriptRefused => Surfaces("blocked_script")
       /\ StyleRefused => Surfaces("blocked_style")]_vars

\* the runs that have a deductStoryboard or a renderShot call pending
RunsInFlight == {r \in 1..MaxRuns : runs[r].pc \in {"deduct", "render"}}

\* C28: while a run has a deductStoryboard or a renderShot call pending the
\* status is Deducting, and no second run is in flight at the same time.
C28_DeductingWhileRunPending ==
  /\ RunsInFlight # {} => status = "DEDUCTING"
  /\ Cardinality(RunsInFlight) <= 1

\* C29: once a run is over, none of the shots it produced that are still in
\* the shot sequence is flagged generating, whether its render succeeded or
\* failed.
C29_NoShotLeftGenerating ==
  \A r \in 1..MaxRuns :
    RunOver(r) =>
      \A k \in 1..Len(shots) :
        shots[k].id \in Range(runs[r].newShots) => ~shots[k].isGenerating

(***************************************************************************)
(* Further properties of the watermark removal (checked under SpecPurify). *)
(***************************************************************************)
\* no removeWatermark call that was submitted is still pending
AllCallsSettled == \A c \in 1..Len(purCalls) : purCalls[c].outcome # "pending"

\* the batch-in-progress flag is cleared, no item is working, none is marked
NothingInProgress ==
  /\ ~isPurifyingBatch
  /\ ~isPurifying
  /\ \A k \in 1..Len(purifyQueue) : purifyQueue[k].status # "working"
  /\ processingBatch = {}

\* the step settles the last pending call of batch b
LastCallSettles(b) ==
  /\ \E c \in CallsOfBatch(purCalls, b) : purCalls[c].outcome = "pending"
  /\ \A c \in CallsOfBatch(purCalls', b) : purCalls'[c].outcome # "pending"

\* the end of the batch is reported in that step
CompletionReported ==
  /\ directorLog'[1] = (IF variant = "V28" THEN "purify_done" ELSE "batch_done")
  /\ isPurifyingBatch' = FALSE
  /\ isPurifying' = FALSE
  /\ processingBatch' = {}
  /\ \A c \in 1..Len(purCalls) :
       \A k \in 1..Len(purifyQueue') :
         purifyQueue'[k].id = purCalls[c].key => purifyQueue'[k].status # "working"

\* C18: the step in which the last removeWatermark call of a batch settles,
\* by success or by failure, reports the end of the batch: the end is logged,
\* the batch-in-progress flag is cleared, no item of the batch is working and
\* none is marked as processing; and whenever no call is pending, nothing is
\* in progress.
C18_BatchReportsCompletion ==
  /\ [][\A b \in 1..MaxQueue : LastCallSettles(b) => CompletionReported]_vars
  /\ [](AllCallsSettled => NothingInProgress)

\* a batch of two targets is over, one call resolved and the other rejected
C18_Witness ==
  /\ variant = "V30"
  /\ Len(purCalls) = 2
  /\ \A c \in 1..2 : purCalls[c].batch = 1
  /\ {purCalls[c].outcome : c \in 1..2} = {"ok", "failed"}
  /\ directorLog[1] = "batch_done"
  /\ ~isPurifying
  /\ processingBatch = {}

\* the step starts run r
RunStarts(r) == runs[r].pc = "none" /\ runs'[r].pc = "deduct"

\* the step is the one in which the deductStoryboard call of run r resolves
DeduceSucceeds(r) == runs[r].pc = "deduct" /\ runs'[r].pc \in {"render", "done"}

\* the entries of a shot sequence that are not of run r
NotOf(seq, r) == SelectSeq(seq, LAMBDA e : e.id \notin OwnedBy(r)')

\* the first n entries of the sequence are these shots, flagged generating
HeadedBy(seq, ids) ==
  /\ Len(seq) >= Len(ids)
  /\ \A k \in 1..Len(ids) : seq[k].id = ids[k] /\ seq[k].isGenerating

\* C24: the step that starts a run prepends count placeholders flagged
\* generating; the step in which its deductStoryboard call resolves puts the
\* produced shots, flagged generating, at the head of the sequence in place
\* of the placeholders; and in every step of the run the shots that are not
\* of the run keep their content and their order.
C24_PlaceholdersThenShots ==
  [][\A r \in 1..MaxRuns :
       /\ RunStarts(r) =>
            /\ Len(runs'[r].ph) = runs'[r].count
            /\ HeadedBy(shots', runs'[r].ph)
            /\ \A k \in 1..runs'[r].count : IsPlaceholder(shots'[k])
            /\ SubSeq(shots', runs'[r].count + 1, Len(shots')) = shots
       /\ DeduceSucceeds(r) =>
            /\ HeadedBy(shots', runs'[r].newShots)
            /\ \A k \in 1..Len(shots') : shots'[k].id \notin Range(runs[r].ph)
       /\ (RunStarts(r) \/ CompletionOf(r)) =>
            NotOf(shots', r) = NotOf(shots, r)]_vars

\* the step is a successful render of run r for a shot that is not its last
RenderSucceedsBeforeLast(r) ==
  /\ RenderResolves(r) \/ StoryboardRenderResolves(r)
  /\ runs[r].k < Len(runs[r].newShots) - 1

\* C25: within a run, a successful render of a shot that is not the last one
\* is followed by the fixed delay: the step issues no renderShot request, the
\* run waits, and the next request is issued when the delay has elapsed.
C25_DelayBetweenRenders ==
  [][\A r \in 1..MaxRuns :
       RenderSucceedsBeforeLast(r) =>
         /\ runs'[r].pc = "pause"
         /\ runs'[r].tried = runs[r].tried
         /\ issued' = issued]_vars

(***************************************************************************)
(* Properties of the application status (checked under SpecPipe).          *)
(***************************************************************************)
\* C21: the status moves Idle -> Distilling -> Idle and Idle -> Deducting ->
\* Idle only: no step changes it from Distilling to Deducting or from
\* Deducting to Distilling, and it never takes the value ERROR.
C21_StatusMovesThroughIdle ==
  /\ [](status \in {"IDLE", "DISTILLING", "DEDUCTING"})
  /\ [][/\ ~(status = "DISTILLING" /\ status' = "DEDUCTING")
        /\ ~(status = "DEDUCTING" /\ status' = "DISTILLING")]_vars

(***************************************************************************)
(* Further properties of the mask canvas (checked under SpecMask).         *)
(***************************************************************************)
\* no stroke is in progress and no image load is pending
CanvasQuiet == ~isDrawing /\ loads = <<>>

\* the canvas is blank: no stroke shows on it, whether it was filled black or
\* is still transparent after a resize
Blank(c) == c.ink = {}

\* C22: whenever no stroke is in progress and no redraw is pending, the mask
\* canvas of the active image shows the last snapshot of the history of that
\* image, or is blank when the history is empty.
C22_CanvasShowsLastSnapshot ==
  (purifyInput # Null /\ CanvasQuiet) =>
    LET history == HistoryOf(maskHistory, purifyInput)
    IN  IF history = <<>> THEN Blank(canvas)
                          ELSE Shows(canvas, history[Len(history)])

\* the images that have a mask history before or after the step
Masked == DOMAIN maskHistory \cup DOMAIN maskHistory'

\* a step that switches the active image leaves every history as it is, and
\* every step leaves the histories of the images that are not active as they
\* are
MaskFrame ==
  /\ purifyInput' # purifyInput =>
       \A img \in Masked : HistoryOf(maskHistory', img) = HistoryOf(maskHistory, img)
  /\ \A img \in Masked :
       img # purifyInput => HistoryOf(maskHistory', img) = HistoryOf(maskHistory, img)

\* a switch of the active image has, once the image loads are over, the last
\* snapshot of the new image on the canvas, or a blank canvas
SwitchShown ==
  (lastOp.op = "select" /\ CanvasQuiet) =>
    LET history == HistoryOf(maskHistory, purifyInput)
    IN  IF history = <<>> THEN Blank(canvas)
                          ELSE Shows(canvas, history[Len(history)])

\* C23: switching the active image leaves the mask history of every image
\* unchanged and shows the last snapshot of the new image, or a blank canvas
\* when it has none; stroke completion, undo and clear change the history of
\* the active image only.
C23_SwitchKeepsHistories ==
  /\ [][MaskFrame]_vars
  /\ []SwitchShown

(***************************************************************************)
(* Properties of the parts of a render request (checked under SpecAssets). *)
(***************************************************************************)
\* the j-th image of asset n is active and its asset is enabled
Supplied(n, j) == assets[n].isActive /\ assets[n].images[j].isActive

\* the image is attached, followed by the label of its asset
Attached(n, j) ==
  \E k \in 1..(Len(renderParts) - 1) :
    /\ renderParts[k] = ImagePart(AssetPayload(n, j))
    /\ renderParts[k + 1].kind = "text"
    /\ renderParts[k + 1].text[2] = assets[n].name

\* C26: the images a render request carries are exactly the active images of
\* the enabled assets: each of them is attached, followed by the label of its
\* asset, and no other image is attached.
C26_ActiveImagesAttached ==
  renderParts # <<>> =>
    /\ \A n \in 1..Len(assets) : \A j \in 1..Len(assets[n].images) :
         Supplied(n, j) => Attached(n, j)
    /\ \A k \in 1..Len(renderParts) :
         renderParts[k].kind = "image" =>
           \E n \in 1..Len(assets) : \E j \in 1..Len(assets[n].images) :
             Supplied(n, j) /\ renderParts[k].data = AssetPayload(n, j)

(***************************************************************************)
(* Properties of the persistence (checked under SpecStore).                *)
(***************************************************************************)
\* C27: no record is written to the store before the startup load has
\* completed successfully, and a record that the store holds is never
\* replaced by the default value of its key.
C27_NoWriteBeforeLoad ==
  [][/\ store' # store => initPc' = "loaded"
     /\ \A key \in store.has :
          store'.val[key] # store.val[key] => store'.val[key] # DefaultState[key]]_vars

====
